---- MODULE Spec2Model ----
(***************************************************************************)
(* CODECHECK Buddy Exchange: the GitHubAPI class (paginated fetches, the   *)
(* availability filter, the leaderboard tally) and the BuddyExchangeApp    *)
(* load handlers that drive them.                                          *)
(*                                                                         *)
(* Representation.  A GitHub user object {login, avatar_url, html_url} is  *)
(* represented by its login (a string); the JSON value null of the field   *)
(* `assignee` is NULL.  A field that the JSON object does not carry        *)
(* (`assignees` of an old payload) is absent from the record's DOMAIN, as  *)
(* in JavaScript.  A date (closed_at, new Date(...)) is an integer         *)
(* timestamp; NoDate is the `null` of lastCompleted.  A string that the    *)
(* code inspects character by character (a label name) is a sequence of    *)
(* one-character strings.                                                  *)
(***************************************************************************)
EXTENDS Integers, Sequences, FiniteSets, TLC

VARIABLES
    remote,     \* the repository's issues, in the order the server lists them
    fetch,      \* one record per running fetch: page cursor, accumulated list
    app,        \* BuddyExchangeApp: isLoading, isLeaderboardLoading, isBuddyLoading
    ui,         \* BuddyExchangeUI: per view, what is shown
    meta,       \* the codecheckers.csv request of loadBuddyData
    input,      \* argument of the pure function under check
    output,     \* its result
    called      \* which pure function produced `output` ("" before the call)

vars == <<remote, fetch, app, ui, meta, input, output, called>>

\* ---------------------------------------------------------------------------
\* Bounds
\* ---------------------------------------------------------------------------
MaxLen == 2

\* scaled-down BuddyExchangeConfig.github.issuesPerPage (100),
\* maxLeaderboardPages (10) and maxAllIssuesPages (50)
PerPage == 2
MaxLeaderboardPages == 2
MaxAllIssuesPages == 3

\* scaled-down BuddyExchangeConfig.maxIssuesDisplayed (50) and leaderboardLength (20)
MaxIssuesDisplayed == 1
LeaderboardLength == 1

\* the repository never holds more than NumIssues issues
NumIssues == 8

NULL == "<null>"
NoDate == -1

\* ---------------------------------------------------------------------------
\* Label names (BuddyExchangeConfig.labels) and String.prototype.toLowerCase
\* ---------------------------------------------------------------------------
buddyExchange ==
    <<"b","u","d","d","y"," ","e","x","c","h","a","n","g","e">>

needsCodechecker ==
    <<"n","e","e","d","s"," ","c","o","d","e","c","h","e","c","k","e","r">>

identifierAssigned ==
    <<"i","d"," ","a","s","s","i","g","n","e","d">>

BuddyExchangeTitleCase ==
    <<"B","u","d","d","y"," ","E","x","c","h","a","n","g","e">>

NeedsCodecheckerUpper ==
    <<"N","E","E","D","S"," ","C","O","D","E","C","H","E","C","K","E","R">>

BuddyExchang ==
    <<"b","u","d","d","y"," ","e","x","c","h","a","n","g">>

toLowerCaseChar(c) ==
    CASE c = "B" -> "b" [] c = "E" -> "e" [] c = "N" -> "n" [] c = "D" -> "d"
      [] c = "S" -> "s" [] c = "C" -> "c" [] c = "O" -> "o" [] c = "H" -> "h"
      [] c = "K" -> "k" [] c = "R" -> "r" [] c = "X" -> "x" [] c = "A" -> "a"
      [] c = "G" -> "g" [] c = "U" -> "u" [] c = "Y" -> "y" [] c = "I" -> "i"
      [] OTHER -> c

toLowerCase(s) == [i \in DOMAIN s |-> toLowerCaseChar(s[i])]

\* this.label and this.availableIssuesLabel, set by the constructor
label == buddyExchange
availableIssuesLabel == needsCodechecker

\* ---------------------------------------------------------------------------
\* Truthiness of the assignment fields
\* ---------------------------------------------------------------------------
\* issue.assignee  (truthy iff not null)
hasAssignee(issue) == issue.assignee # NULL

\* issue.assignees && issue.assignees.length > 0
hasAssignees(issue) ==
    /\ "assignees" \in DOMAIN issue
    /\ Len(issue.assignees) > 0

\* ---------------------------------------------------------------------------
\* GitHubAPI.filterAvailableIssues
\* ---------------------------------------------------------------------------
\* a comparison of label names that forgets toLowerCase()
someLabelCaseSensitive(issue, name) ==
    \E i \in DOMAIN issue.labels : issue.labels[i] = name

\* issue.labels.some(label => label.name.toLowerCase() === name.toLowerCase())
\* (a label object is represented by its name)
someLabel(issue, name) ==
    \E i \in DOMAIN issue.labels :
        toLowerCase(issue.labels[i]) = toLowerCase(name)

\* !issue.assignee && (!issue.assignees || issue.assignees.length === 0)
isUnassigned(issue) ==
    /\ ~hasAssignee(issue)
    /\ \/ "assignees" \notin DOMAIN issue
       \/ Len(issue.assignees) = 0

\* the callback without the "buddy exchange" requirement
isAvailableWithoutBuddyExchange(issue) ==
    IF someLabel(issue, availableIssuesLabel) THEN TRUE
    ELSE isUnassigned(issue)

\* the callback of issues.filter(...) in the current revision
isAvailable(issue) ==
    IF ~someLabel(issue, label) THEN FALSE
    ELSE IF someLabel(issue, availableIssuesLabel) THEN TRUE
    ELSE isUnassigned(issue)

filterAvailableIssues(issues) == SelectSeq(issues, isAvailable)

\* ---------------------------------------------------------------------------
\* GitHubAPI.calculateLeaderboard
\* ---------------------------------------------------------------------------
\* userStats is a JavaScript object keyed by username; Object.values lists
\* its entries in insertion order, so it is kept as a sequence of entries.
indexOfUser(userStats, username) ==
    IF \E i \in DOMAIN userStats : userStats[i].username = username
    THEN CHOOSE i \in DOMAIN userStats : userStats[i].username = username
    ELSE 0

\* if (!userStats[username]) userStats[username] = {... completedCount: 0 ...}
ensureUser(userStats, username) ==
    IF indexOfUser(userStats, username) # 0 THEN userStats
    ELSE Append(userStats, [username |-> username,
                            completedCount |-> 0,
                            lastCompleted |-> NoDate,
                            completedIssues |-> <<>>])

\* a credit that stores the closing date of the issue seen last
creditUserLastSeen(userStats, username, issue) ==
    LET i == indexOfUser(userStats, username)
    IN [userStats EXCEPT ![i] =
           [@ EXCEPT !.completedCount = @ + 1,
                     !.completedIssues = Append(@, issue.number),
                     !.lastCompleted = issue.closed_at]]

\* completedCount++, completedIssues.push(number), lastCompleted update
creditUser(userStats, username, issue) ==
    LET i == indexOfUser(userStats, username)
        closedDate == issue.closed_at
    IN [userStats EXCEPT ![i] =
           [@ EXCEPT !.completedCount = @ + 1,
                     !.completedIssues = Append(@, issue.number),
                     !.lastCompleted =
                         IF @ = NoDate \/ closedDate > @ THEN closedDate ELSE @]]

\* "Count for primary assignee"
countPrimary(userStats, issue) ==
    IF hasAssignee(issue)
    THEN creditUser(ensureUser(userStats, issue.assignee), issue.assignee, issue)
    ELSE userStats

\* "Only count once if user is both assignee and in assignees array"
countsAsAdditional(issue, username) ==
    ~hasAssignee(issue) \/ issue.assignee # username

\* issue.assignees.forEach(assignee => ...), from element k on
RECURSIVE countAdditional(_, _, _)
countAdditional(userStats, issue, k) ==
    IF k > Len(issue.assignees) THEN userStats
    ELSE LET username == issue.assignees[k]
             ensured == ensureUser(userStats, username)
             counted == IF countsAsAdditional(issue, username)
                        THEN creditUser(ensured, username, issue)
                        ELSE ensured
         IN countAdditional(counted, issue, k + 1)

\* a tally that counts every closed issue as completed
tallyIssueCountingAll(tally, issue) ==
    LET primary == countPrimary(tally.userStats, issue)
        all == IF hasAssignees(issue)
               THEN countAdditional(primary, issue, 1)
               ELSE primary
    IN [userStats |-> all, totalCompleted |-> tally.totalCompleted + 1]

\* the body of closedIssues.forEach(issue => ...) on the running tally
tallyIssue(tally, issue) ==
    IF hasAssignee(issue) \/ hasAssignees(issue)
    THEN LET primary == countPrimary(tally.userStats, issue)
             all == IF hasAssignees(issue)
                    THEN countAdditional(primary, issue, 1)
                    ELSE primary
         IN [userStats |-> all, totalCompleted |-> tally.totalCompleted + 1]
    ELSE tally

RECURSIVE tallyIssues(_, _, _)
tallyIssues(tally, closedIssues, k) ==
    IF k > Len(closedIssues) THEN tally
    ELSE tallyIssues(tallyIssue(tally, closedIssues[k]), closedIssues, k + 1)

\* a sort by completedCount ascending
insertByCompletedCountAscending(sorted, entry) ==
    LET before == SelectSeq(sorted, LAMBDA e : e.completedCount <= entry.completedCount)
        after == SelectSeq(sorted, LAMBDA e : e.completedCount > entry.completedCount)
    IN before \o <<entry>> \o after

\* Array.prototype.sort((a, b) => b.completedCount - a.completedCount):
\* a stable sort, written as insertion of each element behind its equals.
insertByCompletedCount(sorted, entry) ==
    LET before == SelectSeq(sorted, LAMBDA e : e.completedCount >= entry.completedCount)
        after == SelectSeq(sorted, LAMBDA e : e.completedCount < entry.completedCount)
    IN before \o <<entry>> \o after

RECURSIVE sortByCompletedCount(_, _, _)
sortByCompletedCount(sorted, entries, k) ==
    IF k > Len(entries) THEN sorted
    ELSE sortByCompletedCount(insertByCompletedCount(sorted, entries[k]), entries, k + 1)

\* avatar, url and searchUrl are carried along for display only; lastUpdated
\* is the clock at the return and is added by calculateLeaderboardAt
calculateLeaderboard(closedIssues) ==
    LET tally == tallyIssues([userStats |-> <<>>, totalCompleted |-> 0], closedIssues, 1)
        leaderboard == sortByCompletedCount(<<>>, tally.userStats, 1)
    IN [leaderboard |-> leaderboard,
        totalCompleted |-> tally.totalCompleted,
        activeContributors |-> Len(leaderboard)]

\* return { leaderboard, totalCompleted, activeContributors,
\*          lastUpdated: new Date() } when the clock shows now
calculateLeaderboardAt(closedIssues, now) ==
    LET computed == calculateLeaderboard(closedIssues)
    IN [leaderboard |-> computed.leaderboard,
        totalCompleted |-> computed.totalCompleted,
        activeContributors |-> computed.activeContributors,
        lastUpdated |-> now]

\* ---------------------------------------------------------------------------
\* GitHubAPI.calculateBuddyRatios
\* ---------------------------------------------------------------------------
\* if (!userStats[login]) userStats[login] = {... receivedChecks: 0 ...}
ensureBuddy(userStats, username) ==
    IF indexOfUser(userStats, username) # 0 THEN userStats
    ELSE Append(userStats, [username |-> username,
                            receivedChecks |-> 0,
                            conductedChecks |-> 0,
                            receivedIssues |-> <<>>,
                            conductedIssues |-> <<>>])

\* receivedChecks++ and receivedIssues.push(number) for the creator
creditReceived(userStats, issue) ==
    LET ensured == ensureBuddy(userStats, issue.user)
        i == indexOfUser(ensured, issue.user)
    IN [ensured EXCEPT ![i] =
           [@ EXCEPT !.receivedChecks = @ + 1,
                     !.receivedIssues = Append(@, issue.number)]]

\* first forEach: "Count received checks"
RECURSIVE countReceived(_, _, _)
countReceived(userStats, allIssues, k) ==
    IF k > Len(allIssues) THEN userStats
    ELSE countReceived(creditReceived(userStats, allIssues[k]), allIssues, k + 1)

\* conductedChecks++ and conductedIssues.push(number)
creditConducted(userStats, username, issue) ==
    LET i == indexOfUser(userStats, username)
    IN [userStats EXCEPT ![i] =
           [@ EXCEPT !.conductedChecks = @ + 1,
                     !.conductedIssues = Append(@, issue.number)]]

\* issue.assignees.forEach(assignee => ...), from element k on
RECURSIVE conductedAdditional(_, _, _)
conductedAdditional(userStats, issue, k) ==
    IF k > Len(issue.assignees) THEN userStats
    ELSE LET username == issue.assignees[k]
             ensured == ensureBuddy(userStats, username)
             counted == IF countsAsAdditional(issue, username)
                        THEN creditConducted(ensured, username, issue)
                        ELSE ensured
         IN conductedAdditional(counted, issue, k + 1)

\* the body of the second forEach: "Count conducted checks"
conductedIssue(userStats, issue) ==
    IF issue.state = "closed" /\ (hasAssignee(issue) \/ hasAssignees(issue))
    THEN LET primary == IF hasAssignee(issue)
                        THEN creditConducted(ensureBuddy(userStats, issue.assignee),
                                             issue.assignee, issue)
                        ELSE userStats
         IN IF hasAssignees(issue)
            THEN conductedAdditional(primary, issue, 1)
            ELSE primary
    ELSE userStats

RECURSIVE countConducted(_, _, _)
countConducted(userStats, allIssues, k) ==
    IF k > Len(allIssues) THEN userStats
    ELSE countConducted(conductedIssue(userStats, allIssues[k]), allIssues, k + 1)

\* a denominator that is not floored at 1
maxWithOneUnfloored(n) == n

\* Math.max(conductedChecks, 1)
maxWithOne(n) == IF n > 1 THEN n ELSE 1

\* ratio is the quotient receivedChecks / Math.max(conductedChecks, 1), kept
\* as numerator and denominator
withRatio(user) ==
    [username |-> user.username,
     receivedChecks |-> user.receivedChecks,
     conductedChecks |-> user.conductedChecks,
     receivedIssues |-> user.receivedIssues,
     conductedIssues |-> user.conductedIssues,
     ratio |-> [num |-> user.receivedChecks, den |-> maxWithOne(user.conductedChecks)],
     deficit |-> user.receivedChecks - user.conductedChecks]

\* b.ratio - a.ratio < 0, = 0: comparison of the two quotients
ratioGreater(x, y) == x.num * y.den > y.num * x.den
ratioEqual(x, y) == x.num * y.den = y.num * x.den

\* a sort by ratio ascending
insertByRatioAscending(sorted, entry) ==
    LET before == SelectSeq(sorted, LAMBDA e : ratioGreater(entry.ratio, e.ratio)
                                                 \/ ratioEqual(e.ratio, entry.ratio))
        after == SelectSeq(sorted, LAMBDA e : ratioGreater(e.ratio, entry.ratio))
    IN before \o <<entry>> \o after

\* .sort((a, b) => b.ratio - a.ratio), stable
insertByRatio(sorted, entry) ==
    LET before == SelectSeq(sorted, LAMBDA e : ratioGreater(e.ratio, entry.ratio)
                                                 \/ ratioEqual(e.ratio, entry.ratio))
        after == SelectSeq(sorted, LAMBDA e : ratioGreater(entry.ratio, e.ratio))
    IN before \o <<entry>> \o after

\* a report left in the order of userStats
sortByRatioSkipped(sorted, entries, k) == entries

RECURSIVE sortByRatio(_, _, _)
sortByRatio(sorted, entries, k) ==
    IF k > Len(entries) THEN sorted
    ELSE sortByRatio(insertByRatio(sorted, entries[k]), entries, k + 1)

\* a filter that keeps every user of userStats
hasReceivedOrConducted(user) == TRUE

\* .filter(user => { const hasReceived = user.receivedChecks > 0; ... })
hasReceived(user) == user.receivedChecks > 0

calculateBuddyRatios(allIssues) ==
    LET received == countReceived(<<>>, allIssues, 1)
        allUsers == countConducted(received, allIssues, 1)
        recipients == SelectSeq(allUsers, hasReceived)
        withRatios == [i \in DOMAIN recipients |-> withRatio(recipients[i])]
    IN [allRecipients |-> sortByRatio(<<>>, withRatios, 1),
        totalUsers |-> Len(allUsers),
        totalIssues |-> Len(allIssues)]

\* a report whose totalIssues moves with the clock
calculateBuddyRatiosStamped(allIssues, now) ==
    LET computed == calculateBuddyRatios(allIssues)
    IN [allRecipients |-> computed.allRecipients,
        totalUsers |-> computed.totalUsers,
        totalIssues |-> computed.totalIssues + now,
        lastUpdated |-> now]

\* return { allRecipients, totalUsers, totalIssues, lastUpdated: new Date() }
\* when the clock shows now
calculateBuddyRatiosAt(allIssues, now) ==
    LET computed == calculateBuddyRatios(allIssues)
    IN [allRecipients |-> computed.allRecipients,
        totalUsers |-> computed.totalUsers,
        totalIssues |-> computed.totalIssues,
        lastUpdated |-> now]

\* ---------------------------------------------------------------------------
\* GitHubAPI.extractCertificateIdentifiers and calculateNextIdentifier
\* ---------------------------------------------------------------------------
Digits == <<"0", "1", "2", "3", "4", "5", "6", "7", "8", "9">>

isDigit(c) == \E d \in DOMAIN Digits : Digits[d] = c

digitValue(c) == (CHOOSE d \in DOMAIN Digits : Digits[d] = c) - 1

\* the six regular expressions, in the order they are tried: a pattern is
\* \d{4}-\d{k} (dashed) or \d{k}
patterns ==
    << [dashed |-> TRUE, digits |-> 3],
       [dashed |-> TRUE, digits |-> 2],
       [dashed |-> TRUE, digits |-> 1],
       [dashed |-> FALSE, digits |-> 3],
       [dashed |-> FALSE, digits |-> 2],
       [dashed |-> FALSE, digits |-> 1] >>

patternLength(pattern) ==
    IF pattern.dashed THEN 5 + pattern.digits ELSE pattern.digits

\* the pattern matches the title at position pos
matchesAt(title, pos, pattern) ==
    /\ pos + patternLength(pattern) - 1 <= Len(title)
    /\ IF pattern.dashed
       THEN /\ \A i \in pos..(pos + 3) : isDigit(title[i])
            /\ title[pos + 4] = "-"
            /\ \A i \in (pos + 5)..(pos + 4 + pattern.digits) : isDigit(title[i])
       ELSE \A i \in pos..(pos + pattern.digits - 1) : isDigit(title[i])

\* title.match(pattern) with the g flag, from position pos on: the leftmost
\* non-overlapping matches (<<>> stands for null)
RECURSIVE matchAll(_, _, _)
matchAll(title, pattern, pos) ==
    IF pos > Len(title) THEN <<>>
    ELSE IF matchesAt(title, pos, pattern)
    THEN <<SubSeq(title, pos, pos + patternLength(pattern) - 1)>>
             \o matchAll(title, pattern, pos + patternLength(pattern))
    ELSE matchAll(title, pattern, pos + 1)

\* match.includes('-')
includesDash(match) == \E i \in DOMAIN match : match[i] = "-"

\* match.split('-')[1]: the text between the first dash and the next one
afterDash(match) ==
    LET first == CHOOSE i \in DOMAIN match :
                     match[i] = "-" /\ \A j \in 1..(i - 1) : match[j] # "-"
        rest == SubSeq(match, first + 1, Len(match))
    IN IF \E i \in DOMAIN rest : rest[i] = "-"
       THEN SubSeq(rest, 1, (CHOOSE i \in DOMAIN rest :
                                 rest[i] = "-" /\ \A j \in 1..(i - 1) : rest[j] # "-") - 1)
       ELSE rest

\* parseInt on the leading digits of text; NaN is -1
RECURSIVE parseDigits(_, _, _)
parseDigits(text, pos, acc) ==
    IF pos > Len(text) \/ ~isDigit(text[pos]) THEN acc
    ELSE parseDigits(text, pos + 1, acc * 10 + digitValue(text[pos]))

parseInt(text) ==
    IF Len(text) = 0 \/ ~isDigit(text[1]) THEN -1
    ELSE parseDigits(text, 1, 0)

\* a number read from the start of the match, dash or not
numberOfMatchWhole(match) == parseInt(match)

\* the number a match stands for
numberOfMatch(match) ==
    IF includesDash(match) THEN parseInt(afterDash(match)) ELSE parseInt(match)

\* matches.forEach(match => ...): the numbers pushed, from match k on
RECURSIVE pushMatches(_, _)
pushMatches(matches, k) ==
    IF k > Len(matches) THEN <<>>
    ELSE LET number == numberOfMatch(matches[k])
         IN (IF number # -1 /\ number > 0 /\ number < 10000 THEN <<number>> ELSE <<>>)
                \o pushMatches(matches, k + 1)

\* for (const pattern of patterns): the first pattern with a match decides
RECURSIVE identifiersOfTitle(_, _)
identifiersOfTitle(title, k) ==
    IF k > Len(patterns) THEN <<>>
    ELSE LET matches == matchAll(title, patterns[k], 1)
         IN IF Len(matches) > 0 THEN pushMatches(matches, 1)
            ELSE identifiersOfTitle(title, k + 1)

RECURSIVE identifiersOfIssues(_, _)
identifiersOfIssues(issues, k) ==
    IF k > Len(issues) THEN <<>>
    ELSE identifiersOfTitle(issues[k].title, 1) \o identifiersOfIssues(issues, k + 1)

\* [...new Set(identifiers)].sort((a, b) => a - b)
RECURSIVE sortedUnique(_)
sortedUnique(numbers) ==
    IF numbers = {} THEN <<>>
    ELSE LET least == CHOOSE n \in numbers : \A m \in numbers : n <= m
         IN <<least>> \o sortedUnique(numbers \ {least})

extractCertificateIdentifiers(issues) ==
    LET identifiers == identifiersOfIssues(issues, 1)
    IN sortedUnique({identifiers[i] : i \in DOMAIN identifiers})

\* an allocation that never looks for a gap
firstGapIgnored(existingIdentifiers, i) ==
    existingIdentifiers[Len(existingIdentifiers)] + 1

\* for (let i = 1; i <= last + 1; i++) if (!existingIdentifiers.includes(i)) return i
RECURSIVE firstGap(_, _)
firstGap(existingIdentifiers, i) ==
    LET last == existingIdentifiers[Len(existingIdentifiers)]
    IN IF i > last + 1 THEN last + 1
       ELSE IF ~(\E k \in DOMAIN existingIdentifiers : existingIdentifiers[k] = i) THEN i
       ELSE firstGap(existingIdentifiers, i + 1)

calculateNextIdentifier(existingIdentifiers) ==
    IF Len(existingIdentifiers) = 0 THEN 1
    ELSE firstGap(existingIdentifiers, 1)

\* number.toString()
RECURSIVE toString(_)
toString(number) ==
    IF number < 10 THEN <<Digits[number + 1]>>
    ELSE toString(number \div 10) \o <<Digits[(number % 10) + 1]>>

\* text.padStart(length, '0')
RECURSIVE padStart(_, _)
padStart(text, length) ==
    IF Len(text) >= length THEN text ELSE padStart(<<"0">> \o text, length)

\* BuddyExchangeConfig.certificate: identifierPadding, currentYear (the year
\* of the clock, the same during a run) and formatIdentifier
identifierPadding == 3
currentYear == <<"2", "0", "2", "5">>

formatCertificateIdentifier(number) ==
    currentYear \o <<"-">> \o padStart(toString(number), identifierPadding)

\* ---------------------------------------------------------------------------
\* The remote repository and the issues-listing endpoint
\* ---------------------------------------------------------------------------
\* The issue with number n.  Issues 1, 4 and 7 are open, the others closed;
\* issue 7 carries no label, issue 1 is assigned but "needs codechecker".
IssueState(n) == IF n % 3 = 1 THEN "open" ELSE "closed"

IssueLabels(n) ==
    CASE n = 1 -> <<buddyExchange, needsCodechecker>>
      [] n = 7 -> <<>>
      [] OTHER -> <<buddyExchange>>

IssueAuthor(n) == CASE n % 3 = 1 -> "a" [] n % 3 = 2 -> "b" [] OTHER -> "c"

IssueAssignees(n) ==
    CASE n \in {1, 5} -> <<"a", "b">>
      [] n \in {3, 4, 7} -> <<>>
      [] n \in {6, 8} -> <<"b">>
      [] OTHER -> <<"a">>

\* titles: most carry the identifier of the issue number, issue 3 carries
\* none, issue 5 a two-digit one behind other text, issue 6 a bare number
IssueTitle(n) ==
    CASE n = 3 -> <<"f", "i", "x">>
      [] n = 5 -> <<"a", "|", "2", "0", "2", "4", "-", "0", "5">>
      [] n = 6 -> <<"n", "o", ".", "6">>
      [] OTHER -> formatCertificateIdentifier(n)

\* the API sets assignee to the first of assignees
Issue(n) ==
    [number |-> n,
     title |-> IssueTitle(n),
     state |-> IssueState(n),
     labels |-> IssueLabels(n),
     user |-> IssueAuthor(n),
     assignee |-> IF IssueAssignees(n) = <<>> THEN NULL ELSE IssueAssignees(n)[1],
     assignees |-> IssueAssignees(n),
     closed_at |-> IF IssueState(n) = "closed" THEN n ELSE NoDate]

\* the repository holding issues 1..n, newest first
Repository(n) == [i \in 1..n |-> Issue(n + 1 - i)]

\* the four queries of GitHubAPI: state and label filter of the URL
Queries == {"open", "closed", "all", "allBuddy"}

matchesQuery(q, issue) ==
    CASE q = "open" -> issue.state = "open"
      [] q = "closed" ->
            /\ issue.state = "closed"
            /\ \E i \in DOMAIN issue.labels : issue.labels[i] = label
      [] q = "all" -> TRUE
      [] q = "allBuddy" -> \E i \in DOMAIN issue.labels : issue.labels[i] = label

\* what the server lists for the query, in its declared order
listing(q) == SelectSeq(remote, LAMBDA issue : matchesQuery(q, issue))

\* the JSON array the server answers for per_page = perPage and page = page
pageOf(list, perPage, page) ==
    IF (page - 1) * perPage >= Len(list) THEN <<>>
    ELSE SubSeq(list, (page - 1) * perPage + 1,
                IF page * perPage <= Len(list) THEN page * perPage ELSE Len(list))

\* ---------------------------------------------------------------------------
\* The pagination loop of fetchClosedBuddyExchangeIssues, fetchAllIssues and
\* fetchAllBuddyExchangeIssues (the three differ in URL and maxPages only)
\* ---------------------------------------------------------------------------
\* A fetch is suspended at `await fetch(url)` (pc = "await") or not running
\* (pc = "idle").  page and allIssues are the locals of the loop.  requested
\* (page numbers asked for), received (the responses), exit (how the loop
\* was left), result (the array returned), served (what the server held for
\* the query when it last answered) and aggregated (the caller passed the
\* result on) record the run for the properties; a new run resets them.
IdleFetch ==
    [pc |-> "idle", page |-> 0, allIssues |-> <<>>, requested |-> <<>>,
     received |-> <<>>, exit |-> "", result |-> <<>>, served |-> <<>>,
     aggregated |-> FALSE]

\* const allIssues = []; let page = 1; first request sent
\* a fetch that takes up the cursor where another run left it, at page 2
startFetchAtPageTwo ==
    [IdleFetch EXCEPT !.pc = "await", !.page = 2, !.requested = <<2>>]

startFetch ==
    [IdleFetch EXCEPT !.pc = "await", !.page = 1, !.requested = <<1>>]

\* return allIssues / throw error
finishFetch(f, how, returned) ==
    [f EXCEPT !.pc = "idle", !.exit = how, !.result = returned,
              !.page = 0, !.allIssues = <<>>]

\* a loop that never takes a short page for the last one
isLastPageNever(issues, perPage) == FALSE

\* if (issues.length < perPage) break;
isLastPage(issues, perPage) == Len(issues) < perPage

\* page++ and the loop condition page <= maxPages
requestNextPage(f, maxPages) ==
    IF f.page + 1 <= maxPages
    THEN [f EXCEPT !.page = @ + 1, !.requested = Append(@, f.page + 1)]
    ELSE finishFetch(f, "ceiling", f.allIssues)

\* a loop that puts each page in front of the pages before it
pushIssuesInFront(allIssues, issues) == issues \o allIssues

\* allIssues.push(...issues)
pushIssues(allIssues, issues) == allIssues \o issues

\* a loop that leaves on a failed response as on a last page, returning the
\* pages it has
onPageResponseKeepingPartial(f, ok, issues, perPage, maxPages) ==
    LET got == [f EXCEPT !.received =
                    Append(@, [ok |-> ok, issues |-> IF ok THEN issues ELSE <<>>])]
    IN IF ~ok THEN finishFetch(got, "short", got.allIssues)
       ELSE IF Len(issues) = 0 THEN finishFetch(got, "empty", got.allIssues)
       ELSE LET pushed == [got EXCEPT !.allIssues = pushIssues(@, issues)]
            IN IF isLastPage(issues, perPage)
               THEN finishFetch(pushed, "short", pushed.allIssues)
               ELSE requestNextPage(pushed, maxPages)

\* the continuation of the loop when the response of the page in flight
\* arrives: ok is response.ok, issues the parsed body
onPageResponse(f, ok, issues, perPage, maxPages) ==
    LET got == [f EXCEPT !.received =
                    Append(@, [ok |-> ok, issues |-> IF ok THEN issues ELSE <<>>])]
    IN IF ~ok THEN finishFetch(got, "error", <<>>)
       ELSE IF Len(issues) = 0 THEN finishFetch(got, "empty", got.allIssues)
       ELSE LET pushed == [got EXCEPT !.allIssues = pushIssues(@, issues)]
            IN IF isLastPage(issues, perPage)
               THEN finishFetch(pushed, "short", pushed.allIssues)
               ELSE requestNextPage(pushed, maxPages)

\* ---------------------------------------------------------------------------
\* BuddyExchangeUI: what each view shows
\* ---------------------------------------------------------------------------
\* #loading, #error, #no-issues, the cards of #issues-list (issue numbers),
\* the "Showing N of M" note, and document.title's count (-1: not set)
IssuesViewAtStart ==
    [loading |-> FALSE, error |-> FALSE, noIssues |-> FALSE,
     list |-> <<>>, more |-> FALSE, titleCount |-> -1]

hideAll(view) == [view EXCEPT !.loading = FALSE, !.error = FALSE, !.noIssues = FALSE]

showLoading(view) == [hideAll(view) EXCEPT !.loading = TRUE]

hideLoading(view) == [view EXCEPT !.loading = FALSE]

\* an error handler that hides everything and shows no message
showErrorWithoutMessage(view) == hideAll(view)

showError(view) == [hideAll(view) EXCEPT !.error = TRUE]

showNoIssues(view) == [hideAll(view) EXCEPT !.noIssues = TRUE]

\* issues.slice(0, n)
slice(list, n) == SubSeq(list, 1, IF Len(list) < n THEN Len(list) ELSE n)

renderIssues(view, issues) ==
    IF Len(issues) = 0 THEN showNoIssues(hideAll(view))
    ELSE [hideAll(view) EXCEPT
              !.list = [i \in DOMAIN slice(issues, MaxIssuesDisplayed) |-> issues[i].number],
              !.more = Len(issues) > MaxIssuesDisplayed]

\* #leaderboard-loading, #leaderboard-error, the statistics and the list
LeaderboardViewAtStart ==
    [loading |-> FALSE, error |-> FALSE, rendered |-> FALSE,
     totalCompleted |-> 0, activeContributors |-> 0, list |-> <<>>, more |-> FALSE]

showLeaderboardLoading(view) == [view EXCEPT !.error = FALSE, !.loading = TRUE]

hideLeaderboardLoading(view) == [view EXCEPT !.loading = FALSE]

showLeaderboardError(view) == [hideLeaderboardLoading(view) EXCEPT !.error = TRUE]

renderLeaderboard(view, leaderboardData) ==
    [view EXCEPT !.loading = FALSE, !.error = FALSE, !.rendered = TRUE,
                 !.totalCompleted = leaderboardData.totalCompleted,
                 !.activeContributors = leaderboardData.activeContributors,
                 !.list = slice(leaderboardData.leaderboard, LeaderboardLength),
                 !.more = Len(leaderboardData.leaderboard) > LeaderboardLength]

\* the next-identifier modal: the dialog, #identifier-loading,
\* #identifier-error, #identifier-content, the submit link, the identifier
\* displayed and whether the suggested title used the stored author name
ModalViewAtStart ==
    [open |-> FALSE, loading |-> FALSE, error |-> FALSE, content |-> FALSE,
     submit |-> FALSE, display |-> <<>>, usedStoredInfo |-> FALSE]

\* modalInstance.show() and "Reset modal state"
resetModal(view) ==
    [view EXCEPT !.open = TRUE, !.content = FALSE, !.error = FALSE,
                 !.submit = FALSE, !.loading = TRUE]

\* stored: localStorage holds an author name
displayNextIdentifier(view, identifier, stored) ==
    [view EXCEPT !.display = identifier, !.usedStoredInfo = stored,
                 !.submit = TRUE, !.content = TRUE]

showIdentifierError(view) == [view EXCEPT !.error = TRUE]

hideIdentifierLoading(view) == [view EXCEPT !.loading = FALSE]

\* the find-a-buddy view: loading indicator, error, the rendered recipients
BuddyViewAtStart ==
    [loading |-> FALSE, error |-> FALSE, rendered |-> FALSE, list |-> <<>>]

showFindBuddyLoading(view) == [view EXCEPT !.error = FALSE, !.loading = TRUE]

hideFindBuddyLoading(view) == [view EXCEPT !.loading = FALSE]

showFindBuddyError(view) == [hideFindBuddyLoading(view) EXCEPT !.error = TRUE]

renderFindBuddy(view, recipients) ==
    [view EXCEPT !.loading = FALSE, !.error = FALSE, !.rendered = TRUE,
                 !.list = recipients]

\* ---------------------------------------------------------------------------
\* GitHubAPI.fetchCodecheckersMetadata: the Map built from codecheckers.csv,
\* handle -> fields; any failure is caught and yields an empty Map
\* ---------------------------------------------------------------------------
NoMetadata == [h \in {} |-> ""]

\* the Maps a well-formed CSV parses to
MetadataMaps == { NoMetadata, [h \in {"a"} |-> "R"] }

\* a fetch that hands on what it parsed although the request failed
metadataOfUncaught(ok, parsed) == parsed

metadataOf(ok, parsed) == IF ok THEN parsed ELSE NoMetadata

\* codecheckersMetadata.get(username) || null
codecheckersData(map, username) ==
    IF username \in DOMAIN map THEN map[username] ELSE NULL

\* recipients.map(recipient => ({...recipient, codecheckersData: ...}))
enrichRecipients(recipients, map) ==
    [i \in DOMAIN recipients |->
        [username |-> recipients[i].username,
         receivedChecks |-> recipients[i].receivedChecks,
         conductedChecks |-> recipients[i].conductedChecks,
         ratio |-> recipients[i].ratio,
         deficit |-> recipients[i].deficit,
         codecheckersData |-> codecheckersData(map, recipients[i].username)]]

\* ---------------------------------------------------------------------------
\* BuddyExchangeApp
\* ---------------------------------------------------------------------------
\* the fetch of each load, and of up to two overlapping runs of the
\* next-identifier modal (showNextIdentifierModal has no in-flight guard)
ModalRuns == {"modal1", "modal2"}
Fetches == {"issues", "leaderboard", "buddy"} \cup ModalRuns

AppAtStart ==
    [isLoading |-> FALSE, isLeaderboardLoading |-> FALSE, isBuddyLoading |-> FALSE]

UiAtStart ==
    [issues |-> IssuesViewAtStart,
     leaderboard |-> LeaderboardViewAtStart,
     buddy |-> BuddyViewAtStart,
     modal |-> ModalViewAtStart]

\* the metadata request: not sent, in flight, or answered with the parsed Map;
\* failed records that the latest answered request failed
MetaAtStart == [pc |-> "idle", map |-> NoMetadata, failed |-> FALSE]

\* the application as its constructor leaves it: no load running, nothing shown
AtRest ==
    /\ fetch = [p \in Fetches |-> IdleFetch]
    /\ app = AppAtStart
    /\ ui = UiAtStart
    /\ meta = MetaAtStart

NoCall ==
    /\ input = <<>>
    /\ output = <<>>
    /\ called = ""

\* GitHubAPI.formatIssueData (the fields the cards use)
formatIssueData(issue) ==
    [number |-> issue.number, title |-> issue.title, author |-> issue.user,
     labels |-> issue.labels, state |-> issue.state]

\* loadIssues without the isLoading guard
LoadIssuesUnguarded ==
    /\ app' = [app EXCEPT !.isLoading = TRUE]
    /\ ui' = [ui EXCEPT !.issues = showLoading(@)]
    /\ fetch' = [fetch EXCEPT !["issues"] = startFetch]
    /\ UNCHANGED <<remote, meta, input, output, called>>

\* loadIssues up to its first suspension, at `await fetch(url)` of
\* fetchBuddyExchangeIssues (one request, no page parameter)
LoadIssues ==
    /\ ~app.isLoading
    /\ app' = [app EXCEPT !.isLoading = TRUE]
    /\ ui' = [ui EXCEPT !.issues = showLoading(@)]
    /\ fetch' = [fetch EXCEPT !["issues"] = startFetch]
    /\ UNCHANGED <<remote, meta, input, output, called>>

\* a loadIssues that resets its flag at the end of the try block only, not
\* in a finally block
IssuesResponseWithoutFinally ==
    /\ fetch["issues"].pc = "await"
    /\ \E ok \in BOOLEAN :
         LET issues == pageOf(listing("open"), PerPage, 1)
             got == [fetch["issues"] EXCEPT
                        !.received = Append(@, [ok |-> ok, issues |-> IF ok THEN issues ELSE <<>>]),
                        !.served = listing("open")]
             available == filterAvailableIssues(issues)
             formattedIssues == [i \in DOMAIN available |-> formatIssueData(available[i])]
         IN IF ok
            THEN /\ fetch' = [fetch EXCEPT !["issues"] =
                                 [finishFetch(got, "single", available) EXCEPT !.aggregated = TRUE]]
                 /\ ui' = [ui EXCEPT !.issues =
                              hideLoading([renderIssues(@, formattedIssues) EXCEPT
                                               !.titleCount = Len(formattedIssues)])]
                 /\ app' = [app EXCEPT !.isLoading = FALSE]
            ELSE /\ fetch' = [fetch EXCEPT !["issues"] = finishFetch(got, "error", <<>>)]
                 /\ ui' = [ui EXCEPT !.issues = hideLoading(showError(@))]
                 /\ app' = app
    /\ UNCHANGED <<remote, meta, input, output, called>>

\* the response arrives: fetchBuddyExchangeIssues returns the filtered page or
\* throws, and loadIssues runs to its end
IssuesResponse ==
    /\ fetch["issues"].pc = "await"
    /\ \E ok \in BOOLEAN :
         LET issues == pageOf(listing("open"), PerPage, 1)
             got == [fetch["issues"] EXCEPT
                        !.received = Append(@, [ok |-> ok, issues |-> IF ok THEN issues ELSE <<>>]),
                        !.served = listing("open")]
             available == filterAvailableIssues(issues)
             formattedIssues == [i \in DOMAIN available |-> formatIssueData(available[i])]
         IN IF ok
            THEN /\ fetch' = [fetch EXCEPT !["issues"] =
                                 [finishFetch(got, "single", available) EXCEPT !.aggregated = TRUE]]
                 /\ ui' = [ui EXCEPT !.issues =
                              hideLoading([renderIssues(@, formattedIssues) EXCEPT
                                               !.titleCount = Len(formattedIssues)])]
            ELSE /\ fetch' = [fetch EXCEPT !["issues"] = finishFetch(got, "error", <<>>)]
                 /\ ui' = [ui EXCEPT !.issues = hideLoading(showError(@))]
    /\ app' = [app EXCEPT !.isLoading = FALSE]
    /\ UNCHANGED <<remote, meta, input, output, called>>

\* loadLeaderboard up to its first suspension, at the request of page 1
LoadLeaderboard ==
    /\ ~app.isLeaderboardLoading
    /\ app' = [app EXCEPT !.isLeaderboardLoading = TRUE]
    /\ ui' = [ui EXCEPT !.leaderboard = showLeaderboardLoading(@)]
    /\ fetch' = [fetch EXCEPT !["leaderboard"] = startFetch]
    /\ UNCHANGED <<remote, meta, input, output, called>>

\* a page response arrives: the loop of fetchClosedBuddyExchangeIssues goes on
\* to the next request, or the fetch returns or throws and loadLeaderboard
\* runs to its end
LeaderboardResponse ==
    /\ fetch["leaderboard"].pc = "await"
    /\ \E ok \in BOOLEAN :
         LET f == fetch["leaderboard"]
             issues == pageOf(listing("closed"), PerPage, f.page)
             next == [onPageResponse(f, ok, issues, PerPage, MaxLeaderboardPages)
                          EXCEPT !.served = listing("closed")]
         IN IF next.pc = "await"
            THEN /\ fetch' = [fetch EXCEPT !["leaderboard"] = next]
                 /\ UNCHANGED <<app, ui>>
            ELSE /\ app' = [app EXCEPT !.isLeaderboardLoading = FALSE]
                 /\ IF next.exit = "error"
                    THEN /\ fetch' = [fetch EXCEPT !["leaderboard"] = next]
                         /\ ui' = [ui EXCEPT !.leaderboard =
                                      hideLeaderboardLoading(showLeaderboardError(@))]
                    ELSE /\ fetch' = [fetch EXCEPT !["leaderboard"] =
                                         [next EXCEPT !.aggregated = TRUE]]
                         /\ ui' = [ui EXCEPT !.leaderboard =
                                      hideLeaderboardLoading(
                                          renderLeaderboard(@, calculateLeaderboard(next.result)))]
    /\ UNCHANGED <<remote, meta, input, output, called>>

\* loadBuddyData up to its first suspension: both requests of Promise.all
\* are in flight
LoadBuddyData ==
    /\ ~app.isBuddyLoading
    /\ app' = [app EXCEPT !.isBuddyLoading = TRUE]
    /\ ui' = [ui EXCEPT !.buddy = showFindBuddyLoading(@)]
    /\ fetch' = [fetch EXCEPT !["buddy"] = startFetch]
    /\ meta' = [pc |-> "await", map |-> NoMetadata, failed |-> FALSE]
    /\ UNCHANGED <<remote, input, output, called>>

\* Promise.all has resolved with [allIssues, codecheckersMetadata]: the rest
\* of the try block and the finally block
buddyRendered(view, allIssues, map) ==
    hideFindBuddyLoading(
        renderFindBuddy(view,
            enrichRecipients(calculateBuddyRatios(allIssues).allRecipients, map)))

\* a page response of fetchAllBuddyExchangeIssues arrives.  When the fetch
\* throws, Promise.all rejects at once and loadBuddyData ends; the metadata
\* request still in flight is left behind and its answer goes nowhere.
BuddyPageResponse ==
    /\ fetch["buddy"].pc = "await"
    /\ \E ok \in BOOLEAN :
         LET f == fetch["buddy"]
             issues == pageOf(listing("allBuddy"), PerPage, f.page)
             next == [onPageResponse(f, ok, issues, PerPage, MaxAllIssuesPages)
                          EXCEPT !.served = listing("allBuddy")]
         IN IF next.pc = "await"
            THEN /\ fetch' = [fetch EXCEPT !["buddy"] = next]
                 /\ UNCHANGED <<app, ui, meta>>
            ELSE IF next.exit = "error"
            THEN /\ fetch' = [fetch EXCEPT !["buddy"] = next]
                 /\ app' = [app EXCEPT !.isBuddyLoading = FALSE]
                 /\ ui' = [ui EXCEPT !.buddy = hideFindBuddyLoading(showFindBuddyError(@))]
                 /\ meta' = [MetaAtStart EXCEPT !.failed = meta.failed]
            ELSE IF meta.pc = "done"
            THEN /\ fetch' = [fetch EXCEPT !["buddy"] = [next EXCEPT !.aggregated = TRUE]]
                 /\ app' = [app EXCEPT !.isBuddyLoading = FALSE]
                 /\ ui' = [ui EXCEPT !.buddy = buddyRendered(@, next.result, meta.map)]
                 /\ meta' = [MetaAtStart EXCEPT !.failed = meta.failed]
            ELSE /\ fetch' = [fetch EXCEPT !["buddy"] = next]
                 /\ UNCHANGED <<app, ui, meta>>
    /\ UNCHANGED <<remote, input, output, called>>

\* the response of the codecheckers.csv request arrives
MetadataResponse ==
    /\ meta.pc = "await"
    /\ \E ok \in BOOLEAN, parsed \in MetadataMaps :
         LET map == metadataOf(ok, parsed)
         IN IF fetch["buddy"].pc = "await"
            THEN /\ meta' = [pc |-> "done", map |-> map, failed |-> ~ok]
                 /\ UNCHANGED <<fetch, app, ui>>
            ELSE /\ fetch' = [fetch EXCEPT !["buddy"] = [@ EXCEPT !.aggregated = TRUE]]
                 /\ app' = [app EXCEPT !.isBuddyLoading = FALSE]
                 /\ ui' = [ui EXCEPT !.buddy = buddyRendered(@, fetch["buddy"].result, map)]
                 /\ meta' = [MetaAtStart EXCEPT !.failed = ~ok]
    /\ UNCHANGED <<remote, input, output, called>>

\* showNextIdentifierModal up to its first suspension, at the request of
\* page 1 of fetchAllIssues; run is a free slot for the new run
ShowNextIdentifierModal(run) ==
    /\ fetch[run].pc = "idle"
    /\ ui' = [ui EXCEPT !.modal = resetModal(@)]
    /\ fetch' = [fetch EXCEPT ![run] = startFetch]
    /\ UNCHANGED <<remote, app, meta, input, output, called>>

\* a page response of fetchAllIssues arrives for the run: the loop goes on,
\* or the fetch returns or throws and showNextIdentifierModal runs to its end
ModalPageResponse(run) ==
    /\ fetch[run].pc = "await"
    /\ \E ok \in BOOLEAN, stored \in BOOLEAN :
         LET f == fetch[run]
             issues == pageOf(listing("all"), PerPage, f.page)
             next == [onPageResponse(f, ok, issues, PerPage, MaxAllIssuesPages)
                          EXCEPT !.served = listing("all")]
             existingIdentifiers == extractCertificateIdentifiers(next.result)
             nextNumber == calculateNextIdentifier(existingIdentifiers)
             nextIdentifier == formatCertificateIdentifier(nextNumber)
         IN IF next.pc = "await"
            THEN /\ fetch' = [fetch EXCEPT ![run] = next]
                 /\ UNCHANGED ui
            ELSE IF next.exit = "error"
            THEN /\ fetch' = [fetch EXCEPT ![run] = next]
                 /\ ui' = [ui EXCEPT !.modal = hideIdentifierLoading(showIdentifierError(@))]
            ELSE /\ fetch' = [fetch EXCEPT ![run] = [next EXCEPT !.aggregated = TRUE]]
                 /\ ui' = [ui EXCEPT !.modal =
                              hideIdentifierLoading(
                                  displayNextIdentifier(@, nextIdentifier, stored))]
    /\ UNCHANGED <<remote, app, meta, input, output, called>>

\* The repository is the same for the whole run: any of the sizes 0..NumIssues.
Init ==
    /\ \E n \in 0..NumIssues : remote = Repository(n)
    /\ AtRest
    /\ NoCall

Next ==
    \/ LoadIssues
    \/ IssuesResponse
    \/ LoadLeaderboard
    \/ LeaderboardResponse
    \/ LoadBuddyData
    \/ BuddyPageResponse
    \/ MetadataResponse

Spec == Init /\ [][Next]_vars

\* every page request of a paginated fetch is answered, with success or with
\* failure
FairSpec ==
    /\ Spec
    /\ WF_vars(LeaderboardResponse)
    /\ WF_vars(BuddyPageResponse)

\* every request of the three loads is answered, with success or with
\* failure; for the codecheckers.csv request this is weak fairness of
\* MetadataResponse, stated on the state of the request
FairLoads ==
    /\ Spec
    /\ WF_vars(IssuesResponse)
    /\ WF_vars(LeaderboardResponse)
    /\ WF_vars(BuddyPageResponse)
    /\ []<>(meta.pc # "await")

\* The next-identifier modal on its own: it shares nothing with the loads
\* but the read-only repository.
NextModal ==
    \/ \E run \in ModalRuns : ShowNextIdentifierModal(run)
    \/ \E run \in ModalRuns : ModalPageResponse(run)

SpecModal == Init /\ [][NextModal]_vars

\* ---------------------------------------------------------------------------
\* Calls of the pure functions on bounded inputs
\* ---------------------------------------------------------------------------
Users == {"a", "b"}

\* label arrays of the payload
LabelLists ==
    { <<>>,
      <<buddyExchange>>,
      <<BuddyExchangeTitleCase>>,
      <<needsCodechecker>>,
      <<NeedsCodecheckerUpper>>,
      <<buddyExchange, needsCodechecker>>,
      <<BuddyExchangeTitleCase, NeedsCodecheckerUpper>>,
      <<identifierAssigned, buddyExchange>>,
      <<BuddyExchang>> }

\* assignee / assignees of the payload; the second set has no assignees field
Assigned ==
    { [assignee |-> NULL, assignees |-> <<>>],
      [assignee |-> NULL, assignees |-> <<"a">>],
      [assignee |-> NULL, assignees |-> <<"a", "b">>],
      [assignee |-> NULL, assignees |-> <<"a", "a">>],
      [assignee |-> "a", assignees |-> <<"a">>],
      [assignee |-> "a", assignees |-> <<"a", "b">>],
      [assignee |-> "b", assignees |-> <<"a">>] }

AssignedLegacy ==
    { [assignee |-> NULL], [assignee |-> "a"], [assignee |-> "b"] }

FilterShapes ==
    { [labels |-> l, assignee |-> x.assignee, assignees |-> x.assignees] :
          l \in LabelLists, x \in Assigned \ {[assignee |-> NULL, assignees |-> <<"a", "a">>],
                                              [assignee |-> "b", assignees |-> <<"a">>]} }
    \cup
    { [labels |-> l, assignee |-> x.assignee] :
          l \in LabelLists, x \in AssignedLegacy \ {[assignee |-> "b"]} }

\* the issue of shape s at position i of the input (number i)
FilterIssue(s, i) ==
    IF "assignees" \in DOMAIN s
    THEN [number |-> i, labels |-> s.labels, assignee |-> s.assignee,
          assignees |-> s.assignees]
    ELSE [number |-> i, labels |-> s.labels, assignee |-> s.assignee]

InitFilter ==
    /\ remote = <<>>
    /\ AtRest
    /\ \E k \in 0..MaxLen : \E f \in [1..k -> FilterShapes] :
           input = [i \in 1..k |-> FilterIssue(f[i], i)]
    /\ output = <<>>
    /\ called = ""

CallFilterAvailableIssues ==
    /\ called = ""
    /\ output' = filterAvailableIssues(input)
    /\ called' = "filterAvailableIssues"
    /\ UNCHANGED <<remote, fetch, app, ui, meta, input>>

NextFilter == CallFilterAvailableIssues

SpecFilter == InitFilter /\ [][NextFilter]_vars

\* closed issues as the leaderboard receives them; the same issue number may
\* occur twice in one input (a page boundary that moved between two requests)
IssueNumbers == 1..2
ClosedDates == 1..2

ClosedIssues ==
    { [number |-> n, closed_at |-> d, assignee |-> x.assignee,
       assignees |-> x.assignees] :
          n \in IssueNumbers, d \in ClosedDates, x \in Assigned }
    \cup
    { [number |-> n, closed_at |-> d, assignee |-> x.assignee] :
          n \in IssueNumbers, d \in ClosedDates, x \in AssignedLegacy }

InitLeaderboard ==
    /\ remote = <<>>
    /\ AtRest
    /\ \E k \in 0..MaxLen : input \in [1..k -> ClosedIssues]
    /\ output = <<>>
    /\ called = ""

CallCalculateLeaderboard ==
    /\ called = ""
    /\ output' = calculateLeaderboard(input)
    /\ called' = "calculateLeaderboard"
    /\ UNCHANGED <<remote, fetch, app, ui, meta, input>>

NextLeaderboard == CallCalculateLeaderboard

SpecLeaderboard == InitLeaderboard /\ [][NextLeaderboard]_vars

\* issues of both states as the buddy report receives them; the issue at
\* position i of the input has number i
MaxBuddyLen == 3

BuddyAssigned ==
    { [assignee |-> NULL, assignees |-> <<>>],
      [assignee |-> NULL, assignees |-> <<"a", "a">>],
      [assignee |-> "a", assignees |-> <<"a", "b">>],
      [assignee |-> "b", assignees |-> <<"b">>] }

BuddyShapes ==
    { [user |-> u, state |-> st, assignee |-> x.assignee, assignees |-> x.assignees] :
          u \in Users, st \in {"open", "closed"}, x \in BuddyAssigned }
    \cup
    { [user |-> u, state |-> st, assignee |-> "a"] :
          u \in Users, st \in {"open", "closed"} }

BuddyIssue(s, i) ==
    IF "assignees" \in DOMAIN s
    THEN [number |-> i, user |-> s.user, state |-> s.state, assignee |-> s.assignee,
          assignees |-> s.assignees]
    ELSE [number |-> i, user |-> s.user, state |-> s.state, assignee |-> s.assignee]

InitBuddy ==
    /\ remote = <<>>
    /\ AtRest
    /\ \E k \in 0..MaxBuddyLen : \E f \in [1..k -> BuddyShapes] :
           input = [i \in 1..k |-> BuddyIssue(f[i], i)]
    /\ output = <<>>
    /\ called = ""

CallCalculateBuddyRatios ==
    /\ called = ""
    /\ output' = calculateBuddyRatios(input)
    /\ called' = "calculateBuddyRatios"
    /\ UNCHANGED <<remote, fetch, app, ui, meta, input>>

NextBuddy == CallCalculateBuddyRatios

SpecBuddy == InitBuddy /\ [][NextBuddy]_vars

\* issue titles: without digits, with one or several identifiers of each
\* form, with digits of several forms, with the identifier 000
MaxTitles == 2

Titles ==
    { <<>>,
      <<"f", "i", "x">>,
      <<"2", "0", "2", "5", "-", "0", "0", "1">>,
      <<"2", "0", "2", "5", "-", "0", "1", "2">>,
      <<"a", "|", "2", "0", "2", "4", "-", "0", "5">>,
      <<"2", "0", "2", "5", "-", "7">>,
      <<"n", "o", ".", "6">>,
      <<"2", "0", "2", "5">>,
      <<"2", "0", "2", "5", "-", "0", "0", "3", " ", "1", "2">>,
      <<"2", "0", "2", "5", "-", "0", "0", "1", ",", "2", "0", "2", "5", "-", "0", "0", "2">>,
      <<"2", "0", "2", "5", "-", "0", "0", "0">>,
      <<"1", "2", "3", "4", "5">>,
      <<"4", "2">>,
      <<"2", "0", "2", "5", "-", "0", "1", "2", "3">> }

InitExtract ==
    /\ remote = <<>>
    /\ AtRest
    /\ \E k \in 0..MaxTitles : \E f \in [1..k -> Titles] :
           input = [i \in 1..k |-> [number |-> i, title |-> f[i]]]
    /\ output = <<>>
    /\ called = ""

CallExtractCertificateIdentifiers ==
    /\ called = ""
    /\ output' = extractCertificateIdentifiers(input)
    /\ called' = "extractCertificateIdentifiers"
    /\ UNCHANGED <<remote, fetch, app, ui, meta, input>>

NextExtract == CallExtractCertificateIdentifiers

SpecExtract == InitExtract /\ [][NextExtract]_vars

\* deduplicated ascending sequences of identifiers up to MaxIdentifier
MaxIdentifier == 7

InitNextIdentifier ==
    /\ remote = <<>>
    /\ AtRest
    /\ \E U \in SUBSET (1..MaxIdentifier) : input = sortedUnique(U)
    /\ output = 0
    /\ called = ""

CallCalculateNextIdentifier ==
    /\ called = ""
    /\ output' = calculateNextIdentifier(input)
    /\ called' = "calculateNextIdentifier"
    /\ UNCHANGED <<remote, fetch, app, ui, meta, input>>

NextNextIdentifier == CallCalculateNextIdentifier

SpecNextIdentifier == InitNextIdentifier /\ [][NextNextIdentifier]_vars

\* the four computations called on one fetched snapshot, each up to twice,
\* the clock moving on or not between the two calls
MaxClock == 2

Computations ==
    {"filterAvailableIssues", "calculateLeaderboard", "calculateBuddyRatios",
     "calculateNextIdentifier"}

\* the fetch that feeds the computation
queryOf(computation) ==
    CASE computation = "filterAvailableIssues" -> "open"
      [] computation = "calculateLeaderboard" -> "closed"
      [] computation = "calculateBuddyRatios" -> "allBuddy"
      [] computation = "calculateNextIdentifier" -> "all"

\* what the computation returns for the snapshot when the clock shows now
resultOf(computation, snapshot, now) ==
    CASE computation = "filterAvailableIssues" ->
             [issues |-> filterAvailableIssues(snapshot)]
      [] computation = "calculateLeaderboard" -> calculateLeaderboardAt(snapshot, now)
      [] computation = "calculateBuddyRatios" -> calculateBuddyRatiosAt(snapshot, now)
      [] computation = "calculateNextIdentifier" ->
             LET existingIdentifiers == extractCertificateIdentifiers(snapshot)
             IN [existingIdentifiers |-> existingIdentifiers,
                 nextNumber |-> calculateNextIdentifier(existingIdentifiers)]

InitSnapshot ==
    /\ \E n \in 0..NumIssues : remote = Repository(n)
    /\ AtRest
    /\ \E q \in Queries : input = listing(q)
    /\ output = <<>>
    /\ called = ""

\* output lists the results of the calls made so far, each with its time
CallOnSnapshot ==
    /\ Len(output) < 2
    /\ \E computation \in Computations, now \in 1..MaxClock :
           /\ input = listing(queryOf(computation))
           /\ called \in {"", computation}
           /\ \A i \in DOMAIN output : output[i].at <= now
           /\ output' = Append(output, [result |-> resultOf(computation, input, now),
                                        at |-> now])
           /\ called' = computation
    /\ UNCHANGED <<remote, fetch, app, ui, meta, input>>

NextSnapshot == CallOnSnapshot

SpecSnapshot == InitSnapshot /\ [][NextSnapshot]_vars

\* ---------------------------------------------------------------------------
\* Claims about filterAvailableIssues (SpecFilter)
\* ---------------------------------------------------------------------------
\* the names that equal a configured label up to letter case
IsBuddyExchangeName(n) == n \in {buddyExchange, BuddyExchangeTitleCase}
IsNeedsCodecheckerName(n) == n \in {needsCodechecker, NeedsCodecheckerUpper}

CarriesBuddyExchange(issue) ==
    \E i \in DOMAIN issue.labels : IsBuddyExchangeName(issue.labels[i])

CarriesNeedsCodechecker(issue) ==
    \E i \in DOMAIN issue.labels : IsNeedsCodecheckerName(issue.labels[i])

NumberOfAssignees(issue) ==
    Cardinality( (IF issue.assignee # NULL THEN {issue.assignee} ELSE {})
                 \cup (IF "assignees" \in DOMAIN issue
                       THEN {issue.assignees[i] : i \in DOMAIN issue.assignees}
                       ELSE {}) )

MeetsAvailabilityRule(issue) ==
    /\ CarriesBuddyExchange(issue)
    /\ \/ CarriesNeedsCodechecker(issue)
       \/ NumberOfAssignees(issue) = 0

Filtered == called = "filterAvailableIssues"

NumbersOf(issues) == {issues[i].number : i \in DOMAIN issues}

\* C6: the result of filterAvailableIssues is exactly the subsequence of the
\* input, in input order, of the issues that carry "buddy exchange" and
\* either carry "needs codechecker" or have no assignee at all; label names
\* are compared without regard to letter case.
C6_FilterIsRuleSubsequence ==
    Filtered =>
        /\ NumbersOf(output) =
               {input[i].number : i \in {j \in DOMAIN input : MeetsAvailabilityRule(input[j])}}
        /\ \A j \in DOMAIN output : output[j] = input[output[j].number]
        /\ \A j, k \in DOMAIN output : j < k => output[j].number < output[k].number

\* an input of two issues of which the filter keeps the second only, and
\* keeps it through a label written in another letter case
C6_Witness ==
    /\ Filtered
    /\ Len(input) = 2
    /\ Len(output) = 1
    /\ output[1].number = 2
    /\ buddyExchange \notin {input[2].labels[i] : i \in DOMAIN input[2].labels}
    /\ CarriesBuddyExchange(input[1])

\* C7 as stated: a "needs codechecker" issue with two assignees is kept, an
\* assigned issue without "needs codechecker" is dropped, and an issue with
\* no labels and no assignee is kept.
C7_AsStated ==
    Filtered =>
        \A i \in DOMAIN input :
            /\ (CarriesNeedsCodechecker(input[i]) /\ NumberOfAssignees(input[i]) = 2)
                   => input[i].number \in NumbersOf(output)
            /\ (~CarriesNeedsCodechecker(input[i]) /\ NumberOfAssignees(input[i]) = 1)
                   => input[i].number \notin NumbersOf(output)
            /\ (input[i].labels = <<>> /\ NumberOfAssignees(input[i]) = 0)
                   => input[i].number \in NumbersOf(output)

\* C7 amended: a "needs codechecker" issue with two assignees is kept when it
\* also carries "buddy exchange", an assigned issue without "needs
\* codechecker" is dropped, and an issue with no labels and no assignee is
\* dropped.
C7_FilterCases ==
    Filtered =>
        \A i \in DOMAIN input :
            /\ (CarriesNeedsCodechecker(input[i]) /\ CarriesBuddyExchange(input[i])
                  /\ NumberOfAssignees(input[i]) = 2)
                   => input[i].number \in NumbersOf(output)
            /\ (~CarriesNeedsCodechecker(input[i]) /\ NumberOfAssignees(input[i]) = 1)
                   => input[i].number \notin NumbersOf(output)
            /\ (input[i].labels = <<>> /\ NumberOfAssignees(input[i]) = 0)
                   => input[i].number \notin NumbersOf(output)

\* the filter has run on a labelled two-assignee issue followed by an issue
\* with no labels and no assignee
C7_Witness ==
    /\ Filtered
    /\ Len(input) = 2
    /\ CarriesNeedsCodechecker(input[1]) /\ CarriesBuddyExchange(input[1])
    /\ NumberOfAssignees(input[1]) = 2
    /\ input[2].labels = <<>> /\ NumberOfAssignees(input[2]) = 0
    /\ NumbersOf(output) = {1}

\* ---------------------------------------------------------------------------
\* Claims about calculateLeaderboard (SpecLeaderboard)
\* ---------------------------------------------------------------------------
Tallied == called = "calculateLeaderboard"

\* the users an issue is assigned to: {assignee} \cup assignees
AssigneesOf(issue) ==
    (IF issue.assignee # NULL THEN {issue.assignee} ELSE {})
    \cup (IF "assignees" \in DOMAIN issue
          THEN {issue.assignees[i] : i \in DOMAIN issue.assignees}
          ELSE {})

IsCompleted(issue) == AssigneesOf(issue) # {}

\* C8: totalCompleted is the number of input issues with at least one
\* assignee, one per issue however many assignees it has, and the issues
\* without assignee change nothing in the result.
C8_TotalCompletedCountsIssues ==
    Tallied =>
        /\ output.totalCompleted =
               Cardinality({i \in DOMAIN input : IsCompleted(input[i])})
        /\ output = calculateLeaderboard(SelectSeq(input, IsCompleted))

\* a two-assignee issue next to an unassigned one: one completed exchange
C8_Witness ==
    /\ Tallied
    /\ Len(input) = 2
    /\ Cardinality(AssigneesOf(input[1])) = 2
    /\ ~IsCompleted(input[2])
    /\ output.totalCompleted = 1
    /\ Len(output.leaderboard) = 2

\* C9: in every leaderboard entry completedCount is the number of distinct
\* issue numbers of completedIssues, and completedIssues has no repetition.
C9_CountIsDistinctIssues ==
    Tallied =>
        \A e \in DOMAIN output.leaderboard :
            LET entry == output.leaderboard[e]
            IN /\ entry.completedCount =
                      Cardinality({entry.completedIssues[i] : i \in DOMAIN entry.completedIssues})
               /\ \A i, j \in DOMAIN entry.completedIssues :
                      i # j => entry.completedIssues[i] # entry.completedIssues[j]

\* C10: every user is credited, per issue, once if the user is among
\* {assignee} \cup assignees of the issue and not at all otherwise.
C10_OncePerDistinctAssignee ==
    Tallied =>
        \A u \in Users :
            LET credited == Cardinality({i \in DOMAIN input : u \in AssigneesOf(input[i])})
                entries == {e \in DOMAIN output.leaderboard : output.leaderboard[e].username = u}
            IN /\ Cardinality(entries) = (IF credited > 0 THEN 1 ELSE 0)
               /\ \A e \in entries : output.leaderboard[e].completedCount = credited

\* the closing dates of the input issues credited to user u
ClosingDatesOf(u) ==
    {input[i].closed_at : i \in {j \in DOMAIN input : u \in AssigneesOf(input[j])}}

\* C11: lastCompleted of every leaderboard entry is the latest closed_at
\* among the input issues credited to that user, whatever their order.
C11_LastCompletedIsLatest ==
    Tallied =>
        \A e \in DOMAIN output.leaderboard :
            LET entry == output.leaderboard[e]
            IN /\ entry.lastCompleted \in ClosingDatesOf(entry.username)
               /\ \A d \in ClosingDatesOf(entry.username) : d <= entry.lastCompleted

\* the later of two issues of one user comes first in the input
C11_Witness ==
    /\ Tallied
    /\ Len(input) = 2
    /\ "a" \in AssigneesOf(input[1]) /\ "a" \in AssigneesOf(input[2])
    /\ input[1].closed_at > input[2].closed_at
    /\ \E e \in DOMAIN output.leaderboard :
           /\ output.leaderboard[e].username = "a"
           /\ output.leaderboard[e].lastCompleted = input[1].closed_at

\* C12: the leaderboard is ordered by completedCount non-increasing, has
\* exactly one entry per user credited with at least one issue and none for
\* any other user, and activeContributors is the number of entries.
C12_LeaderboardOrderedOnePerUser ==
    Tallied =>
        /\ \A i, j \in DOMAIN output.leaderboard :
               i < j => output.leaderboard[i].completedCount
                            >= output.leaderboard[j].completedCount
        /\ \A u \in Users :
               Cardinality({e \in DOMAIN output.leaderboard :
                                output.leaderboard[e].username = u})
                   = (IF \E i \in DOMAIN input : u \in AssigneesOf(input[i]) THEN 1 ELSE 0)
        /\ \A e \in DOMAIN output.leaderboard : output.leaderboard[e].username \in Users
        /\ output.activeContributors = Len(output.leaderboard)

\* the user met second in the input has more completed issues and is first
C12_Witness ==
    /\ Tallied
    /\ Len(input) = 2
    /\ AssigneesOf(input[1]) = {"a", "b"}
    /\ input[1].assignee = "a"
    /\ AssigneesOf(input[2]) = {"b"}
    /\ Len(output.leaderboard) = 2
    /\ output.leaderboard[1].username = "b"
    /\ output.leaderboard[1].completedCount = 2
    /\ output.leaderboard[2].completedCount = 1
    /\ output.activeContributors = 2

\* ---------------------------------------------------------------------------
\* Claims about calculateBuddyRatios (SpecBuddy)
\* ---------------------------------------------------------------------------
Reported == called = "calculateBuddyRatios"

\* the input issues authored by u, and the closed ones assigned to u
AuthoredBy(u) == {i \in DOMAIN input : input[i].user = u}
ConductedBy(u) ==
    {i \in DOMAIN input : input[i].state = "closed" /\ u \in AssigneesOf(input[i])}

\* the positions of the report that belong to u
EntriesOf(u) ==
    {e \in DOMAIN output.allRecipients : output.allRecipients[e].username = u}

\* C13: in every entry of the report, receivedChecks is the number of input
\* issues the user authored and conductedChecks the number of closed input
\* issues that have the user among their distinct assignees.
C13_ChecksCountIssues ==
    Reported =>
        \A e \in DOMAIN output.allRecipients :
            LET entry == output.allRecipients[e]
            IN /\ entry.receivedChecks = Cardinality(AuthoredBy(entry.username))
               /\ entry.conductedChecks = Cardinality(ConductedBy(entry.username))

\* C14: a user has an entry in the report if and only if the user authored
\* at least one input issue; every entry has receivedChecks > 0.
C14_EntryIffAuthored ==
    Reported =>
        /\ \A u \in Users :
               Cardinality(EntriesOf(u)) = (IF AuthoredBy(u) # {} THEN 1 ELSE 0)
        /\ \A e \in DOMAIN output.allRecipients :
               /\ output.allRecipients[e].username \in Users
               /\ output.allRecipients[e].receivedChecks > 0

\* b conducted a check and authored nothing: the report has a alone
C14_Witness ==
    /\ Reported
    /\ Len(input) = 2
    /\ AuthoredBy("b") = {}
    /\ ConductedBy("b") # {}
    /\ output.totalUsers = 2
    /\ Len(output.allRecipients) = 1
    /\ output.allRecipients[1].username = "a"

\* C15: every entry has ratio = receivedChecks / max(conductedChecks, 1) and
\* deficit = receivedChecks - conductedChecks; 3 received and 0 conducted
\* give ratio 3 and deficit 3, 2 and 2 give ratio 1 and deficit 0.
C15_RatioAndDeficit ==
    Reported =>
        \A e \in DOMAIN output.allRecipients :
            LET entry == output.allRecipients[e]
                floor == IF entry.conductedChecks >= 1 THEN entry.conductedChecks ELSE 1
            IN /\ entry.ratio.den > 0
               /\ entry.ratio.num * floor = entry.receivedChecks * entry.ratio.den
               /\ entry.deficit = entry.receivedChecks - entry.conductedChecks
               /\ (entry.receivedChecks = 3 /\ entry.conductedChecks = 0)
                      => (entry.ratio.num = 3 * entry.ratio.den /\ entry.deficit = 3)
               /\ (entry.receivedChecks = 2 /\ entry.conductedChecks = 2)
                      => (entry.ratio.num = entry.ratio.den /\ entry.deficit = 0)

\* a authored three issues and conducted no check
C15_Witness ==
    /\ Reported
    /\ Cardinality(AuthoredBy("a")) = 3
    /\ ConductedBy("a") = {}
    /\ \E e \in EntriesOf("a") :
           /\ output.allRecipients[e].receivedChecks = 3
           /\ output.allRecipients[e].conductedChecks = 0
           /\ output.allRecipients[e].ratio = [num |-> 3, den |-> 1]
           /\ output.allRecipients[e].deficit = 3

\* ratio(x) >= ratio(y) for two quotients with positive denominators
RatioAtLeast(x, y) == x.num * y.den >= y.num * x.den

\* C16: the report is ordered by ratio non-increasing.
C16_OrderedByRatio ==
    Reported =>
        \A i, j \in DOMAIN output.allRecipients :
            i < j => RatioAtLeast(output.allRecipients[i].ratio,
                                  output.allRecipients[j].ratio)

\* the user met second has the strictly greater ratio and is first
C16_Witness ==
    /\ Reported
    /\ Len(input) = 3
    /\ input[1].user = "a"
    /\ Len(output.allRecipients) = 2
    /\ output.allRecipients[1].username = "b"
    /\ output.allRecipients[2].username = "a"
    /\ ~RatioAtLeast(output.allRecipients[2].ratio, output.allRecipients[1].ratio)

\* C17 as stated: of two users with the same receivedChecks, the one with
\* strictly fewer conductedChecks is never ranked below the other.
C17_AsStated ==
    Reported =>
        \A i, j \in DOMAIN output.allRecipients :
            LET x == output.allRecipients[i]
                y == output.allRecipients[j]
            IN (x.receivedChecks = y.receivedChecks
                    /\ x.conductedChecks < y.conductedChecks) => i < j

\* C17: of two users with the same receivedChecks, the one with strictly
\* fewer conductedChecks is ranked above the other unless their conducted
\* counts are 0 and 1; these two have the same ratio, and either of them
\* may stand above the other.
C17_FewerConductedAboveUnlessTied ==
    Reported =>
        \A i, j \in DOMAIN output.allRecipients :
            LET x == output.allRecipients[i]
                y == output.allRecipients[j]
            IN (x.receivedChecks = y.receivedChecks
                    /\ x.conductedChecks < y.conductedChecks) =>
                   IF x.conductedChecks = 0 /\ y.conductedChecks = 1
                   THEN RatioAtLeast(x.ratio, y.ratio) /\ RatioAtLeast(y.ratio, x.ratio)
                   ELSE i < j

\* b authored one issue and conducted one check, a authored one issue later
\* and conducted none: b stands above a
C17_Witness ==
    /\ Reported
    /\ Len(output.allRecipients) = 2
    /\ output.allRecipients[1].username = "b"
    /\ output.allRecipients[1].receivedChecks = 1
    /\ output.allRecipients[1].conductedChecks = 1
    /\ output.allRecipients[2].username = "a"
    /\ output.allRecipients[2].receivedChecks = 1
    /\ output.allRecipients[2].conductedChecks = 0

\* ---------------------------------------------------------------------------
\* Claims about the certificate identifiers (SpecExtract, SpecNextIdentifier)
\* ---------------------------------------------------------------------------
Extracted == called = "extractCertificateIdentifiers"

\* the pattern occurs somewhere in the title
OccursIn(title, pattern) == \E pos \in DOMAIN title : matchesAt(title, pos, pattern)

\* the first pattern in priority order that occurs in the title, 0 if none
DecidingPattern(title) ==
    IF \E k \in DOMAIN patterns : OccursIn(title, patterns[k])
    THEN CHOOSE k \in DOMAIN patterns :
             /\ OccursIn(title, patterns[k])
             /\ \A j \in 1..(k - 1) : ~OccursIn(title, patterns[j])
    ELSE 0

\* where the matches of a global search start: at every occurrence that no
\* earlier match covers
MatchStarts(title, pattern) ==
    LET taken[i \in DOMAIN title] ==
            /\ matchesAt(title, i, pattern)
            /\ \A j \in 1..(i - 1) : j + patternLength(pattern) > i => ~taken[j]
    IN {i \in DOMAIN title : taken[i]}

\* the number written by the digits title[from..to]
DecimalValue(title, from, to) ==
    LET value[i \in (from - 1)..to] ==
            IF i < from THEN 0 ELSE value[i - 1] * 10 + digitValue(title[i])
    IN value[to]

\* the number of the match starting at pos: the suffix of a dashed match
ValueOfMatch(title, pattern, pos) ==
    IF pattern.dashed
    THEN DecimalValue(title, pos + 5, pos + 4 + pattern.digits)
    ELSE DecimalValue(title, pos, pos + pattern.digits - 1)

\* what one title contributes
IdentifiersIn(title) ==
    IF DecidingPattern(title) = 0 THEN {}
    ELSE LET pattern == patterns[DecidingPattern(title)]
         IN {n \in {ValueOfMatch(title, pattern, pos) : pos \in MatchStarts(title, pattern)} :
                 0 < n /\ n < 10000}

\* C18: each title contributes the matches of the first pattern in priority
\* order that occurs in it and of no other, a dashed match counts by its
\* suffix, and the result is the ascending sequence without repetition of the
\* contributed values n with 0 < n < 10000.
C18_FirstPatternDecides ==
    Extracted =>
        /\ \A i, j \in DOMAIN output : i < j => output[i] < output[j]
        /\ {output[i] : i \in DOMAIN output}
               = UNION {IdentifiersIn(input[i].title) : i \in DOMAIN input}
        /\ \A i \in DOMAIN output : 0 < output[i] /\ output[i] < 10000

\* a title with a dashed identifier and a bare number, after a title with a
\* greater identifier: the bare number contributes nothing
C18_Witness ==
    /\ Extracted
    /\ Len(input) = 2
    /\ input[1].title = <<"2", "0", "2", "5", "-", "0", "1", "2">>
    /\ input[2].title = <<"2", "0", "2", "5", "-", "0", "0", "3", " ", "1", "2">>
    /\ output = <<3, 12>>

Allocated == called = "calculateNextIdentifier"

\* C19: calculateNextIdentifier returns the smallest positive integer that is
\* not in U: 1 for the empty U, the lowest gap if there is one, max(U) + 1
\* otherwise.
C19_SmallestUnused ==
    Allocated =>
        LET U == {input[i] : i \in DOMAIN input}
        IN /\ output > 0
           /\ output \notin U
           /\ \A n \in 1..(output - 1) : n \in U
           /\ U = {} => output = 1
           /\ input = <<1, 2, 4>> => output = 3
           /\ input = <<1, 2, 3>> => output = 4

\* identifiers 1, 2 and 4 are taken: 3 is next
C19_Witness ==
    /\ Allocated
    /\ input = <<1, 2, 4>>
    /\ output = 3

\* ---------------------------------------------------------------------------
\* Claims about repeated calls on one snapshot (SpecSnapshot)
\* ---------------------------------------------------------------------------
CalledTwice == Len(output) = 2

ApartFromLastUpdated(result) ==
    [field \in DOMAIN result \ {"lastUpdated"} |-> result[field]]

PaginatedFetches == {"leaderboard", "buddy"} \cup ModalRuns

maxPagesOf(p) == IF p = "leaderboard" THEN MaxLeaderboardPages ELSE MaxAllIssuesPages

\* the response is the last the loop asks for: failed, empty or short
EndsTheFetch(response) == ~response.ok \/ Len(response.issues) < PerPage

\* a fetch never asks for more than maxPages pages and never asks for a page
\* after a failed, empty or short one
C1_RequestsBounded ==
    \A p \in PaginatedFetches :
        /\ Len(fetch[p].requested) <= maxPagesOf(p)
        /\ \A i \in DOMAIN fetch[p].received :
               EndsTheFetch(fetch[p].received[i])
                   => (Len(fetch[p].requested) = i /\ fetch[p].pc = "idle")

\* C1: every paginated fetch terminates: it sends at most maxPages requests,
\* none after the first failed, empty or short page, and a fetch in flight
\* always comes to its end.
C1_PaginatedFetchTerminates ==
    /\ []C1_RequestsBounded
    /\ \A p \in {"leaderboard", "buddy"} :
           (fetch[p].pc = "await") ~> (fetch[p].pc = "idle")

\* a full page followed by an empty page: the fetch ended right there
C1_Witness ==
    /\ Len(fetch["leaderboard"].received) = 2
    /\ fetch["leaderboard"].received[1].ok
    /\ Len(fetch["leaderboard"].received[1].issues) = PerPage
    /\ fetch["leaderboard"].received[2].ok
    /\ fetch["leaderboard"].received[2].issues = <<>>
    /\ fetch["leaderboard"].requested = <<1, 2>>
    /\ fetch["leaderboard"].pc = "idle"
    /\ fetch["leaderboard"].exit = "empty"

\* the view of a load shows its error
ShowsError(p) ==
    CASE p = "issues" -> ui.issues.error /\ ~ui.issues.loading /\ ~app.isLoading
      [] p = "leaderboard" ->
            ui.leaderboard.error /\ ~ui.leaderboard.loading /\ ~app.isLeaderboardLoading
      [] p = "buddy" -> ui.buddy.error /\ ~ui.buddy.loading /\ ~app.isBuddyLoading
      [] OTHER -> ui.modal.error

\* C2: a failed page response is the last response of its fetch: the fetch
\* throws, returns nothing of what it had accumulated, asks for no further
\* page, no aggregator runs, and the load shows its error.
C2_FailureDiscardsPages ==
    \A p \in {"issues", "leaderboard", "buddy"} :
        \A i \in DOMAIN fetch[p].received :
            ~fetch[p].received[i].ok =>
                /\ i = Len(fetch[p].received)
                /\ Len(fetch[p].requested) = i
                /\ fetch[p].pc = "idle"
                /\ fetch[p].exit = "error"
                /\ fetch[p].result = <<>>
                /\ ~fetch[p].aggregated
                /\ ShowsError(p)

\* the second page of the leaderboard fetch failed after a full first page
C2_Witness ==
    /\ Len(fetch["leaderboard"].received) = 2
    /\ fetch["leaderboard"].received[1].ok
    /\ Len(fetch["leaderboard"].received[1].issues) = PerPage
    /\ ~fetch["leaderboard"].received[2].ok
    /\ fetch["leaderboard"].exit = "error"
    /\ ui.leaderboard.error

\* C3: an aggregator is never run on a sequence that the maxPages ceiling cut
\* off while the server held further matching issues.
C3_NoAggregationOfTruncated ==
    \A p \in {"leaderboard", "buddy"} :
        fetch[p].aggregated =>
            ~(fetch[p].exit = "ceiling" /\ Len(fetch[p].served) > Len(fetch[p].result))

\* the concatenation of the page contents received, from response k on
RECURSIVE pagesFrom(_, _)
pagesFrom(received, k) ==
    IF k > Len(received) THEN <<>>
    ELSE received[k].issues \o pagesFrom(received, k + 1)

\* C4: the pages requested are 1, 2, ..., k, a page is requested only when
\* every earlier request has been answered, and the array returned is the
\* concatenation of the pages in request order.
C4_SequentialPagination ==
    \A p \in PaginatedFetches :
        /\ fetch[p].requested = [i \in 1..Len(fetch[p].requested) |-> i]
        /\ Len(fetch[p].received) <= Len(fetch[p].requested)
        /\ Len(fetch[p].requested) <= Len(fetch[p].received) + 1
        /\ (fetch[p].pc = "await") <=> (Len(fetch[p].requested) = Len(fetch[p].received) + 1)
        /\ fetch[p].pc = "await" => fetch[p].allIssues = pagesFrom(fetch[p].received, 1)
        /\ fetch[p].exit \in {"empty", "short", "ceiling"}
               => fetch[p].result = pagesFrom(fetch[p].received, 1)

\* fetchAllIssues has returned three pages with distinct contents
C4_Witness ==
    \E run \in ModalRuns :
        /\ fetch[run].requested = <<1, 2, 3>>
        /\ Len(fetch[run].received) = 3
        /\ fetch[run].exit = "short"
        /\ Len(fetch[run].result) = 2 * PerPage + 1
        /\ fetch[run].result[1].number > fetch[run].result[Len(fetch[run].result)].number

\* C5: every open issue that meets the availability rule is in the list that
\* fetchBuddyExchangeIssues returns, wherever it stands among the open issues.
C5_AllAvailableIssuesReturned ==
    fetch["issues"].aggregated =>
        \A i \in DOMAIN fetch["issues"].served :
            MeetsAvailabilityRule(fetch["issues"].served[i])
                => fetch["issues"].served[i].number \in NumbersOf(fetch["issues"].result)

\* ---------------------------------------------------------------------------
\* Claims about the loads running side by side (Spec, FairLoads)
\* ---------------------------------------------------------------------------
Loads == {"issues", "leaderboard", "buddy"}

queryOfLoad(p) ==
    CASE p = "issues" -> "open" [] p = "leaderboard" -> "closed" [] p = "buddy" -> "allBuddy"

\* the first n elements of a list, all of it if it is shorter
FirstOf(list, n) == SubSeq(list, 1, IF Len(list) < n THEN Len(list) ELSE n)

\* what the fetch of load p returns when it runs alone, every request answered
\* with success
ReturnedAlone(p) ==
    IF p = "issues"
    THEN SelectSeq(FirstOf(listing("open"), PerPage), MeetsAvailabilityRule)
    ELSE FirstOf(listing(queryOfLoad(p)), PerPage * maxPagesOf(p))

\* the fetch of load p has returned (not thrown)
HasReturned(p) == fetch[p].exit \in {"single", "empty", "short", "ceiling"}

\* C21 (state part): a fetch that went through next to the others returns
\* what it returns alone, and while it runs its cursor and its list are those
\* its own responses produced.
C21_OwnCursorAndList ==
    \A p \in Loads :
        /\ HasReturned(p) => fetch[p].result = ReturnedAlone(p)
        /\ fetch[p].pc = "await" =>
               /\ fetch[p].page = Len(fetch[p].received) + 1
               /\ fetch[p].allIssues
                      = FirstOf(listing(queryOfLoad(p)), (fetch[p].page - 1) * PerPage)

\* C21: the three fetches running side by side do not interfere: each returns
\* the sequence it returns alone on the same repository, and no step changes
\* the cursor or the list of more than one fetch.
C21_FetchesDoNotInterfere ==
    /\ []C21_OwnCursorAndList
    /\ [][Cardinality({p \in Fetches : fetch'[p] # fetch[p]}) <= 1]_vars

\* the buddy fetch has returned three pages while the issues request and the
\* second page of the leaderboard fetch are in flight
C21_Witness ==
    /\ fetch["issues"].pc = "await"
    /\ fetch["leaderboard"].pc = "await"
    /\ fetch["leaderboard"].page = 2
    /\ fetch["buddy"].exit = "short"
    /\ Len(fetch["buddy"].received) = 3
    /\ fetch["buddy"].result = listing("allBuddy")

\* the loading flag of a view
LoadingFlag(p) ==
    CASE p = "issues" -> app.isLoading
      [] p = "leaderboard" -> app.isLeaderboardLoading
      [] p = "buddy" -> app.isBuddyLoading

\* a request of the load is in flight
InFlight(p) == fetch[p].pc = "await" \/ (p = "buddy" /\ meta.pc = "await")

\* the step starts a fetch of load p
Starts(p) == fetch'[p] # fetch[p] /\ fetch'[p] = startFetch

\* C22 (state part): a view has requests in flight only while its flag is
\* set, and a load can start exactly when its own flag is not set, whatever
\* the flags of the other views.
C22_FlagGuardsItsView ==
    /\ \A p \in Loads : InFlight(p) => LoadingFlag(p)
    /\ (ENABLED LoadIssues) <=> ~app.isLoading
    /\ (ENABLED LoadLeaderboard) <=> ~app.isLeaderboardLoading
    /\ (ENABLED LoadBuddyData) <=> ~app.isBuddyLoading

\* C22: at most one load per view is in flight: no request is sent for a view
\* whose flag is set, and the three flags are independent.
C22_OneLoadPerView ==
    /\ []C22_FlagGuardsItsView
    /\ [][\A p \in Loads : Starts(p) => (~LoadingFlag(p) /\ ~InFlight(p))]_vars

\* all three loads are in flight at once; a second loadIssues cannot start
C22_Witness ==
    /\ app.isLoading /\ app.isLeaderboardLoading /\ app.isBuddyLoading
    /\ \A p \in Loads : fetch[p].pc = "await"
    /\ ~ENABLED LoadIssues

\* the loading indicator of a view
LoadingShown(p) ==
    CASE p = "issues" -> ui.issues.loading
      [] p = "leaderboard" -> ui.leaderboard.loading
      [] p = "buddy" -> ui.buddy.loading

\* C23: every load that sets its flag resets it and hides its loading
\* indicator, whether the fetch succeeds or fails, so that the view can be
\* loaded again.
C23_FlagIsReset ==
    \A p \in Loads : LoadingFlag(p) ~> (~LoadingFlag(p) /\ ~LoadingShown(p))

\* a failed load of the issues has ended: flag reset, indicator hidden
C23_Witness ==
    /\ fetch["issues"].exit = "error"
    /\ ~app.isLoading
    /\ ~ui.issues.loading
    /\ fetch["buddy"].aggregated
    /\ ~app.isBuddyLoading
    /\ ~ui.buddy.loading

\* the load of view p has run to its end
HasEnded(p) == fetch[p].exit # "" /\ ~LoadingFlag(p)

\* the error message of the view is shown
ErrorShown(p) ==
    CASE p = "issues" -> ui.issues.error
      [] p = "leaderboard" -> ui.leaderboard.error
      [] p = "buddy" -> ui.buddy.error

\* what the render function of the view writes
Content(p) ==
    CASE p = "issues" -> <<ui.issues.noIssues, ui.issues.list, ui.issues.more,
                           ui.issues.titleCount>>
      [] p = "leaderboard" -> <<ui.leaderboard.rendered, ui.leaderboard.totalCompleted,
                                ui.leaderboard.activeContributors, ui.leaderboard.list,
                                ui.leaderboard.more>>
      [] p = "buddy" -> <<ui.buddy.rendered, ui.buddy.list>>

\* the view shows the whole result of the fetch, up to the display limit
RenderedFrom(p, result) ==
    CASE p = "issues" ->
             /\ ui.issues.titleCount = Len(result)
             /\ IF Len(result) = 0 THEN ui.issues.noIssues
                ELSE /\ ~ui.issues.noIssues
                     /\ ui.issues.list = [i \in DOMAIN FirstOf(result, MaxIssuesDisplayed)
                                              |-> result[i].number]
                     /\ ui.issues.more = (Len(result) > MaxIssuesDisplayed)
      [] p = "leaderboard" ->
             LET tallied == calculateLeaderboard(result)
             IN /\ ui.leaderboard.rendered
                /\ ui.leaderboard.totalCompleted = tallied.totalCompleted
                /\ ui.leaderboard.activeContributors = tallied.activeContributors
                /\ ui.leaderboard.list = FirstOf(tallied.leaderboard, LeaderboardLength)
                /\ ui.leaderboard.more = (Len(tallied.leaderboard) > LeaderboardLength)
      [] p = "buddy" ->
             LET report == calculateBuddyRatios(result).allRecipients
             IN /\ ui.buddy.rendered
                /\ Len(ui.buddy.list) = Len(report)
                /\ \A i \in DOMAIN report :
                       ui.buddy.list[i].username = report[i].username

\* C24 (state part): a load that has ended either rendered the result of its
\* fetch and shows no error, or its fetch failed and the error is shown.
C24_RenderedOrError ==
    \A p \in Loads :
        HasEnded(p) =>
            \/ /\ HasReturned(p) /\ fetch[p].aggregated
               /\ ~ErrorShown(p)
               /\ RenderedFrom(p, fetch[p].result)
            \/ /\ fetch[p].exit = "error" /\ ~fetch[p].aggregated
               /\ ErrorShown(p)

\* C24: each load ends in exactly one of two outcomes: the view is rendered
\* from the result of the fetch and no error is shown, or the fetch failed,
\* the error is shown and the failing load renders nothing.
C24_ExactlyOneOutcome ==
    /\ []C24_RenderedOrError
    /\ [][\A p \in Loads :
              (fetch'[p] # fetch[p] /\ fetch'[p].exit = "error") => Content(p)' = Content(p)]_vars

\* the leaderboard was rendered while the load of the issues failed
C24_Witness ==
    /\ HasEnded("issues") /\ fetch["issues"].exit = "error" /\ ui.issues.error
    /\ HasEnded("leaderboard") /\ fetch["leaderboard"].aggregated
    /\ ~ui.leaderboard.error
    /\ Len(ui.leaderboard.list) > 0

\* ---------------------------------------------------------------------------
\* The page: document-ready, init, the listeners and the clock (SpecPage)
\* ---------------------------------------------------------------------------
\* the largest repository of the page runs, the clock value at which the page
\* is loaded and the time the runs cover after it
PageIssues == 2
LoadedAt == 4
MaxElapsed == 2

\* BuddyExchangeConfig.getRefreshIntervalMs, in ticks of the clock
getRefreshIntervalMs == 2

\* the order of the three awaits of init
InitOrder == <<"issues", "leaderboard", "buddy">>

\* the application after the constructor; init is the position of
\* BuddyExchangeApp.init: not yet called, awaiting one of its loads, or done.
\* No field lastUpdate exists.
AppAtPageLoad ==
    [isLoading |-> FALSE, isLeaderboardLoading |-> FALSE, isBuddyLoading |-> FALSE,
     init |-> "start"]

\* input is the environment (Date.now() and document.hidden); output keeps
\* the time of the latest start of a load and, of the latest refresh the
\* visibility handler triggered, the time that had passed since that start
InitPage ==
    /\ \E n \in 0..PageIssues : remote = Repository(n)
    /\ fetch = [p \in Fetches |-> IdleFetch]
    /\ app = AppAtPageLoad
    /\ ui = UiAtStart
    /\ meta = MetaAtStart
    /\ input = [now |-> LoadedAt, hidden |-> FALSE]
    /\ output = [lastLoad |-> NoDate, elapsed |-> NoDate]
    /\ called = ""

\* the loads among the requested ones that pass their in-flight guard
notSkipped(requested) == {p \in requested : ~LoadingFlag(p)}

\* the flags after the loads in starting have set theirs
flagsSet(a, starting) ==
    [a EXCEPT !.isLoading = @ \/ "issues" \in starting,
              !.isLeaderboardLoading = @ \/ "leaderboard" \in starting,
              !.isBuddyLoading = @ \/ "buddy" \in starting]

\* the loads in starting run up to their first suspension: each shows its
\* loading indicator and sends its first request
StartLoads(starting) ==
    /\ fetch' = [p \in Fetches |-> IF p \in starting THEN startFetch ELSE fetch[p]]
    /\ ui' = [ui EXCEPT
                 !.issues = IF "issues" \in starting THEN showLoading(@) ELSE @,
                 !.leaderboard = IF "leaderboard" \in starting
                                 THEN showLeaderboardLoading(@) ELSE @,
                 !.buddy = IF "buddy" \in starting THEN showFindBuddyLoading(@) ELSE @]
    /\ meta' = IF "buddy" \in starting THEN [pc |-> "await", map |-> NoMetadata, failed |-> FALSE] ELSE meta

\* the time of the latest start of a load, once the loads in starting began
lastLoadAfter(starting) == IF starting = {} THEN output.lastLoad ELSE input.now

\* the load init awaits has returned: the continuation of init is the next
\* thing to run, before any other event is handled
Resuming == app.init \in Loads /\ ~LoadingFlag(app.init)

\* a mutant of document-ready: init starts its three loads at once, as
\* refresh does
InitStartInParallel ==
    /\ app.init = "start"
    /\ StartLoads(Loads)
    /\ output' = [output EXCEPT !.lastLoad = lastLoadAfter(Loads)]
    /\ app' = [flagsSet(app, Loads) EXCEPT !.init = "issues"]
    /\ UNCHANGED <<remote, input, called>>

\* document-ready: the application is constructed and init runs up to its
\* first await, inside loadIssues
InitStart ==
    /\ app.init = "start"
    /\ StartLoads({"issues"})
    /\ output' = [output EXCEPT !.lastLoad = lastLoadAfter({"issues"})]
    /\ app' = [flagsSet(app, {"issues"}) EXCEPT !.init = "issues"]
    /\ UNCHANGED <<remote, input, called>>

\* the calls init still has to make after the one it awaited
callsAfter(p) ==
    CASE p = "issues" -> <<"leaderboard", "buddy">>
      [] p = "leaderboard" -> <<"buddy">>
      [] p = "buddy" -> <<>>

\* the first of these calls that is not skipped by its guard (a skipped call
\* returns at once and init goes on), or "done" when none is left
nextAwaited(calls) ==
    LET free == {i \in DOMAIN calls : ~LoadingFlag(calls[i])}
    IN IF free = {} THEN "done"
       ELSE calls[CHOOSE i \in free : \A j \in free : i <= j]

\* the load init awaited has returned: init goes on to its next call
InitResume ==
    /\ Resuming
    /\ LET next == nextAwaited(callsAfter(app.init))
       IN /\ StartLoads({next} \cap Loads)
          /\ output' = [output EXCEPT !.lastLoad = lastLoadAfter({next} \cap Loads)]
          /\ app' = [flagsSet(app, {next} \cap Loads) EXCEPT !.init = next]
    /\ UNCHANGED <<remote, input, called>>

\* a click on the refresh button: loadIssues() and loadLeaderboard()
RefreshClick ==
    /\ app.init # "start" /\ ~Resuming
    /\ StartLoads(notSkipped({"issues", "leaderboard"}))
    /\ output' = [output EXCEPT
                     !.lastLoad = lastLoadAfter(notSkipped({"issues", "leaderboard"}))]
    /\ app' = flagsSet(app, notSkipped({"issues", "leaderboard"}))
    /\ UNCHANGED <<remote, input, called>>

\* the interval timer set by setupEventListeners fires
AutoRefresh ==
    /\ app.init # "start" /\ ~Resuming
    /\ input.now > LoadedAt
    /\ (input.now - LoadedAt) % getRefreshIntervalMs = 0
    /\ StartLoads(notSkipped({"issues", "leaderboard"}))
    /\ output' = [output EXCEPT
                     !.lastLoad = lastLoadAfter(notSkipped({"issues", "leaderboard"}))]
    /\ app' = flagsSet(app, notSkipped({"issues", "leaderboard"}))
    /\ UNCHANGED <<remote, input, called>>

\* window.app.lastUpdate || 0
lastUpdate == IF "lastUpdate" \in DOMAIN app THEN app.lastUpdate ELSE 0

\* the visibilitychange handler decides to call refresh
refreshIsDue(hidden) ==
    /\ ~hidden
    /\ app.init # "start"
    /\ input.now - lastUpdate > getRefreshIntervalMs

\* the tab is hidden or shown again: when it is shown and the interval has
\* passed since lastUpdate, refresh() starts the three loads
VisibilityChange ==
    /\ ~Resuming
    /\ input' = [input EXCEPT !.hidden = ~@]
    /\ IF refreshIsDue(~input.hidden)
       THEN /\ StartLoads(notSkipped(Loads))
            /\ app' = flagsSet(app, notSkipped(Loads))
            /\ output' = [lastLoad |-> lastLoadAfter(notSkipped(Loads)),
                          elapsed |-> input.now - output.lastLoad]
       ELSE UNCHANGED <<fetch, ui, meta, app, output>>
    /\ UNCHANGED <<remote, called>>

\* time passes
Tick ==
    /\ ~Resuming
    /\ input.now < LoadedAt + MaxElapsed
    /\ input' = [input EXCEPT !.now = @ + 1]
    /\ UNCHANGED <<remote, fetch, app, ui, meta, output, called>>

NextPage ==
    \/ InitStart
    \/ InitResume
    \/ RefreshClick
    \/ AutoRefresh
    \/ VisibilityChange
    \/ Tick
    \/ ~Resuming /\ IssuesResponse
    \/ ~Resuming /\ LeaderboardResponse
    \/ ~Resuming /\ BuddyPageResponse
    \/ ~Resuming /\ MetadataResponse

SpecPage == InitPage /\ [][NextPage]_vars

\* ---------------------------------------------------------------------------
\* Claims about the page (SpecPage)
\* ---------------------------------------------------------------------------
\* the position of init in the order of its calls
RankOfInit(position) ==
    CASE position = "start" -> 0
      [] position = "issues" -> 1
      [] position = "leaderboard" -> 2
      [] position = "buddy" -> 3
      [] position = "done" -> 4

\* the in-flight flag of load p in the application a
FlagIn(a, p) ==
    CASE p = "issues" -> a.isLoading
      [] p = "leaderboard" -> a.isLeaderboardLoading
      [] p = "buddy" -> a.isBuddyLoading

\* the loads whose flag the step sets
StartedInStep == {p \in Loads : LoadingFlag(p)' /\ ~LoadingFlag(p)}

\* C25 (one step of init): init only moves forward through loadIssues,
\* loadLeaderboard, loadBuddyData; it begins with loadIssues alone; it makes
\* a further call only when the load it awaited is no longer running; and the
\* step starts no load other than the one init then awaits.
C25_InitMovesInOrder ==
    app'.init # app.init =>
        /\ RankOfInit(app'.init) > RankOfInit(app.init)
        /\ app.init = "start" => app'.init = "issues"
        /\ app.init \in Loads => ~LoadingFlag(app.init) /\ fetch[app.init].exit # ""
        /\ StartedInStep \subseteq {app'.init}
        /\ app'.init \in Loads => FlagIn(app', app'.init)

\* C25 (no load is dropped): once the load init awaited has returned, with a
\* rendered view or with an error, the next step is init's next call, after
\* which every load that precedes init's new position has been run and is
\* not left out: loadLeaderboard is running or has ended when init awaits
\* loadBuddyData or is done.
C25_InitGoesOn ==
    Resuming =>
        /\ app'.init # app.init
        /\ \A i \in DOMAIN InitOrder :
               i < RankOfInit(app'.init) =>
                   LoadingFlag(InitOrder[i])' \/ fetch'[InitOrder[i]].exit # ""

\* C25: init runs loadIssues, loadLeaderboard and loadBuddyData in that
\* order, each call made only after the previous one has returned, and a
\* failed fetch of an earlier load does not keep init from the later calls.
C25_InitRunsLoadsInOrder ==
    [][C25_InitMovesInOrder /\ C25_InitGoesOn]_vars

\* init is done, the fetch of loadIssues failed and the two later loads
\* rendered their views
C25_Witness ==
    /\ app.init = "done"
    /\ fetch["issues"].exit = "error" /\ ui.issues.error
    /\ fetch["leaderboard"].aggregated /\ ui.leaderboard.rendered
    /\ fetch["buddy"].aggregated /\ ui.buddy.rendered

\* C26: a refresh triggered by the tab becoming visible comes more than the
\* refresh interval after the latest load of the application.
C26_RefreshOnlyAfterInterval ==
    output.elapsed # NoDate => output.elapsed > getRefreshIntervalMs

\* ---------------------------------------------------------------------------
\* Claims about loadBuddyData and the metadata request (Spec)
\* ---------------------------------------------------------------------------
\* the step ends the load of the buddy report
EndsBuddyLoad == app.isBuddyLoading /\ ~app'.isBuddyLoading

\* every recipient of the rendered report is shown without metadata
AllWithoutMetadata(list) == \A i \in DOMAIN list : list[i].codecheckersData = NULL

\* C27 (one step): loadBuddyData sends the first issue request and the
\* metadata request together; the step that ends the load after the issue
\* fetch failed shows the error and leaves the report untouched; the step
\* that ends it after the issue fetch returned renders the report of the
\* returned issues and shows no error, with codecheckersData = null for
\* every recipient when the metadata request failed.
C27_StepOfBuddyLoad ==
    /\ Starts("buddy") => fetch'["buddy"].pc = "await" /\ meta'.pc = "await"
    /\ EndsBuddyLoad =>
           IF fetch'["buddy"].exit = "error"
           THEN /\ ui'.buddy.error
                /\ ~fetch'["buddy"].aggregated
                /\ ui'.buddy.list = ui.buddy.list
                /\ ui'.buddy.rendered = ui.buddy.rendered
           ELSE /\ ui'.buddy.rendered /\ ~ui'.buddy.error
                /\ fetch'["buddy"].aggregated
                /\ LET report == calculateBuddyRatios(fetch'["buddy"].result).allRecipients
                   IN /\ Len(ui'.buddy.list) = Len(report)
                      /\ \A i \in DOMAIN report :
                             ui'.buddy.list[i].username = report[i].username
                /\ meta'.failed => AllWithoutMetadata(ui'.buddy.list)

\* C27: the two requests of loadBuddyData run in parallel and, whichever is
\* answered first, a failed metadata request alone still lets the report be
\* rendered, without metadata, while a failed issue fetch shows the buddy
\* error and renders nothing.
C27_MetadataFailureIsTolerated == [][C27_StepOfBuddyLoad]_vars

\* the report of a repository with recipients was rendered after the
\* metadata request had failed
C27_Witness ==
    /\ ~app.isBuddyLoading
    /\ meta.failed
    /\ HasReturned("buddy") /\ fetch["buddy"].aggregated
    /\ ui.buddy.rendered /\ ~ui.buddy.error
    /\ Len(ui.buddy.list) > 1
    /\ AllWithoutMetadata(ui.buddy.list)

\* ---------------------------------------------------------------------------
\* A repository that changes while the paginated fetches run (SpecLive)
\* ---------------------------------------------------------------------------
\* the largest repository at the start and the number of changes made to it
LiveIssues == 4
MaxChanges == 1

\* the queries of the two loads, both sorted by update time, latest first
LiveQueries == {"closed", "allBuddy"}

\* the numbers of the issues the server lists for the query in repository r
matching(q, r) == {r[i].number : i \in {j \in DOMAIN r : matchesQuery(q, r[j])}}

\* the list without its i-th element
without(list, i) == SubSeq(list, 1, i - 1) \o SubSeq(list, i + 1, Len(list))

\* input counts the changes made to the repository; output keeps, for each
\* query, the issues that matched it in every state of the repository so far
InitLive ==
    /\ \E n \in 0..LiveIssues : remote = Repository(n)
    /\ AtRest
    /\ input = 0
    /\ output = [q \in LiveQueries |-> matching(q, remote)]
    /\ called = ""

\* the repository changes to r
ChangeRemote(r) ==
    /\ input < MaxChanges
    /\ input' = input + 1
    /\ remote' = r
    /\ output' = [q \in LiveQueries |-> output[q] \cap matching(q, r)]
    /\ UNCHANGED <<fetch, app, ui, meta, called>>

\* somebody opens a new issue: it is the latest updated one
CreateIssue ==
    \E number \in {Len(remote) + 1} : ChangeRemote(<<Issue(number)>> \o remote)

\* somebody comments on or edits an issue: it becomes the latest updated one
UpdateIssue ==
    \E i \in DOMAIN remote : ChangeRemote(<<remote[i]>> \o without(remote, i))

\* somebody closes an open issue: it is closed and the latest updated one
CloseIssue ==
    \E i \in DOMAIN remote :
        /\ remote[i].state = "open"
        /\ ChangeRemote(<<[remote[i] EXCEPT !.state = "closed",
                                            !.closed_at = Len(remote) + 1]>>
                        \o without(remote, i))

NextLive ==
    \/ LoadLeaderboard
    \/ LeaderboardResponse
    \/ LoadBuddyData
    \/ BuddyPageResponse
    \/ MetadataResponse
    \/ CreateIssue
    \/ UpdateIssue
    \/ CloseIssue

SpecLive == InitLive /\ [][NextLive]_vars

\* ---------------------------------------------------------------------------
\* Claims about a changing repository (SpecLive)
\* ---------------------------------------------------------------------------
\* no issue number occurs twice in the list
EachIssueOnce(issues) ==
    \A i, j \in DOMAIN issues : issues[i].number = issues[j].number => i = j

\* C28: the list a paginated fetch returns holds each issue at most once and,
\* unless the page ceiling cut it, every issue that matched the query all the
\* time, also when the repository changed between two page requests.
C28_EachIssueOnceAndNoneMissed ==
    \A p \in {"leaderboard", "buddy"} :
        HasReturned(p) =>
            /\ EachIssueOnce(fetch[p].result)
            /\ fetch[p].exit # "ceiling" =>
                   output[queryOfLoad(p)] \subseteq NumbersOf(fetch[p].result)

\* C28, first half alone: the returned list holds no issue twice.
C28_NoIssueTwice ==
    \A p \in {"leaderboard", "buddy"} :
        HasReturned(p) => EachIssueOnce(fetch[p].result)

\* C28, second half alone: the returned list misses no issue that matched
\* the query all the time.
C28_NoIssueMissed ==
    \A p \in {"leaderboard", "buddy"} :
        (HasReturned(p) /\ fetch[p].exit # "ceiling") =>
            output[queryOfLoad(p)] \subseteq NumbersOf(fetch[p].result)

\* ---------------------------------------------------------------------------
\* Claims about the allocation flow of the next-identifier modal (SpecModal)
\* ---------------------------------------------------------------------------
\* the certificate numbers carried by the titles of the whole repository
NumbersInRepository ==
    {extractCertificateIdentifiers(remote)[i] :
         i \in DOMAIN extractCertificateIdentifiers(remote)}

\* the identifier the run computed from the issues its fetch returned
AllocatedBy(run) ==
    calculateNextIdentifier(extractCertificateIdentifiers(fetch[run].result))

\* the run went through to displayNextIdentifier
HasAllocated(run) == HasReturned(run) /\ fetch[run].aggregated

\* C29: the identifier the allocation flow produces is not the certificate
\* number of any title in the repository, whatever the size of the repository.
C29_AllocatedIdentifierIsFree ==
    \A run \in ModalRuns :
        HasAllocated(run) => AllocatedBy(run) \notin NumbersInRepository

\* C29 with the repository within the page ceiling: the identifier produced
\* from a fetch that was not cut is free.
C29_FreeWhenNotCut ==
    \A run \in ModalRuns :
        (HasAllocated(run) /\ fetch[run].exit # "ceiling") =>
            AllocatedBy(run) \notin NumbersInRepository

\* ---------------------------------------------------------------------------
\* The next-identifier modal opened twice over a repository that changes
\* (SpecOverlap): modal1 is the run started first, modal2 the run started
\* while modal1 is still fetching
\* ---------------------------------------------------------------------------
\* the first click on the next-identifier link
OpenFirst ==
    /\ fetch["modal1"] = IdleFetch /\ fetch["modal2"] = IdleFetch
    /\ ShowNextIdentifierModal("modal1")

\* the second click, while the fetch of the first run is in flight
OpenSecond ==
    /\ fetch["modal1"].pc = "await" /\ fetch["modal2"] = IdleFetch
    /\ ShowNextIdentifierModal("modal2")

NextOverlap ==
    \/ OpenFirst
    \/ OpenSecond
    \/ \E run \in ModalRuns : ModalPageResponse(run)
    \/ CreateIssue

SpecOverlap == InitLive /\ [][NextOverlap]_vars

\* the run has ended, with an identifier or with an error
RunEnded(run) == fetch[run].pc = "idle" /\ fetch[run].exit # ""

\* C30: when two runs of the modal overlapped and both have ended, the
\* identifier on display is the one the run started later computed.
C30_LaterRunIsDisplayed ==
    (RunEnded("modal1") /\ RunEnded("modal2") /\ HasAllocated("modal2")) =>
        ui.modal.display = formatCertificateIdentifier(AllocatedBy("modal2"))

====
